---- MODULE Spec2Model ----
(***************************************************************************)
(* Optimizer core of the quasi-Newton demo: linear algebra primitives,     *)
(* the quadratic objective family, the two line searches and the seven     *)
(* optimizer loops.                                                        *)
(*                                                                         *)
(* Numbers are exact rationals <<n, d>> in lowest terms with d > 0, with   *)
(* NaN and the two infinities beside them; a rational outside the          *)
(* fractions of 32-bit integers is written <<"E", m, e>>, m * 10^e.        *)
(* The rounding of IEEE doubles and the sign of zero are not modelled.     *)
(* The inputs are small integers and dyadic fractions.  Euclidean norms    *)
(* are carried as their squares (normSq); a comparison norm(v) < t is      *)
(* decided on the squares, and the trust-region code, which divides by a   *)
(* norm, takes the exact root of a square rational.                        *)
(***************************************************************************)
EXTENDS Integers, Sequences, FiniteSets, TLC

(***************************************************************************)
(* Rational arithmetic                                                     *)
(***************************************************************************)
Abs(i) == IF i < 0 THEN -i ELSE i

RECURSIVE GCD(_, _)
GCD(a, b) == IF b = 0 THEN a ELSE GCD(b, a % b)

Rat(n, d) ==
  LET s == IF d < 0 THEN -1 ELSE 1
      k == GCD(Abs(n), Abs(d))
  IN  <<(s * n) \div k, (s * d) \div k>>

R(i) == <<i, 1>>
Zero == R(0)
One == R(1)
Half == <<1, 2>>

\* the non-finite values of a JavaScript number; the sign of a zero is not
\* kept, so that 1 / 0 is Infinity
NaN == <<0, 0>>
Infinity == <<1, 0>>
isFinite(a) == a[2] # 0
Sign(a) == IF a[1] < 0 THEN -1 ELSE IF a[1] > 0 THEN 1 ELSE 0

RNeg(a) == <<-a[1], a[2]>>
RAdd(a, b) ==
  IF isFinite(a) /\ isFinite(b)
  THEN LET k == GCD(a[2], b[2])
       IN  Rat(a[1] * (b[2] \div k) + b[1] * (a[2] \div k),
               (a[2] \div k) * b[2])
  ELSE IF a = NaN \/ b = NaN THEN NaN
  ELSE IF ~isFinite(a) /\ ~isFinite(b) THEN (IF a = b THEN a ELSE NaN)
  ELSE IF isFinite(a) THEN b ELSE a
RSub(a, b) == RAdd(a, RNeg(b))
RMul(a, b) ==
  IF isFinite(a) /\ isFinite(b)
  THEN LET k1 == GCD(Abs(a[1]), b[2])
           k2 == GCD(Abs(b[1]), a[2])
       IN  IF a[1] = 0 \/ b[1] = 0 THEN Zero
           ELSE <<(a[1] \div k1) * (b[1] \div k2),
                  (a[2] \div k2) * (b[2] \div k1)>>
  ELSE IF Sign(a) = 0 \/ Sign(b) = 0 THEN NaN
  ELSE <<Sign(a) * Sign(b), 0>>
RInv(a) ==
  IF ~isFinite(a) THEN (IF a = NaN THEN NaN ELSE Zero)
  ELSE IF a[1] = 0 THEN Infinity
  ELSE IF a[1] < 0 THEN <<-a[2], -a[1]>> ELSE <<a[2], a[1]>>
RDiv(a, b) == RMul(a, RInv(b))
RAbs(a) == <<Abs(a[1]), a[2]>>

\* a < b decided on the continued-fraction expansions, so that no product of
\* a numerator and a denominator is formed
RECURSIVE FracLt(_, _, _, _)
FracLt(n1, d1, n2, d2) ==
  LET q1 == n1 \div d1
      q2 == n2 \div d2
      r1 == n1 % d1
      r2 == n2 % d2
  IN  IF q1 # q2 THEN q1 < q2
      ELSE IF r2 = 0 THEN FALSE
      ELSE IF r1 = 0 THEN TRUE
      ELSE FracLt(d2, r2, d1, r1)

\* the comparisons of JavaScript numbers: false whenever an operand is NaN
RLt(a, b) ==
  IF a = NaN \/ b = NaN THEN FALSE
  ELSE IF isFinite(a) /\ isFinite(b) THEN FracLt(a[1], a[2], b[1], b[2])
  ELSE IF ~isFinite(a) THEN a[1] < 0 /\ b # a
  ELSE b[1] > 0
RLe(a, b) == a # NaN /\ b # NaN /\ ~RLt(b, a)
RGt(a, b) == RLt(b, a)
RGe(a, b) == RLe(b, a)
\* Math.min
RMin(a, b) == IF a = NaN \/ b = NaN THEN NaN ELSE IF RLt(b, a) THEN b ELSE a

\* the largest k in lo..hi with k * k <= n, by bisection
RECURSIVE ISqrtIn(_, _, _)
ISqrtIn(n, lo, hi) ==
  IF lo >= hi THEN lo
  ELSE LET mid == (lo + hi + 1) \div 2
       IN  IF mid * mid <= n THEN ISqrtIn(n, mid, hi)
           ELSE ISqrtIn(n, lo, mid - 1)

\* the integer whose square is n; there is none when n is not a square
ISqrt(n) ==
  CHOOSE k \in {ISqrtIn(n, 0, IF n < 46340 THEN n ELSE 46340)} : k * k = n
\* Math.sqrt on a rational that is the square of a rational
RSqrt(a) ==
  IF isFinite(a) THEN <<ISqrt(a[1]), ISqrt(a[2])>>
  ELSE IF a = Infinity THEN Infinity ELSE NaN

\* 0 <= a < 10^(-k), scaling a by ten k times; each scaling is made only
\* after a < 1/10 is known
RECURSIVE LtNegPow10(_, _)
LtNegPow10(a, k) ==
  IF k = 0 \/ ~isFinite(a) THEN RLt(a, One)
  ELSE RLt(a, <<1, 10>>) /\ LtNegPow10(RMul(a, R(10)), k - 1)

\* Math.abs(a) < 1e-12
AbsLt1em12(a) == LtNegPow10(RAbs(a), 12)

\* a > 1e-12 (no fraction of 32-bit integers equals 1e-12)
Gt1em12(a) == RGt(a, Zero) /\ ~LtNegPow10(a, 12)

\* Numbers too large or too small for a fraction of two 32-bit integers
\* are written <<"E", m, e>>, m * 10^e with a fraction m, 1 <= |m| < 10,
\* and e <= -9 or e >= 9: the bounds 1e-10 and 1e10 of the
\* Barzilai-Borwein step, the squares of lengths below 1e-4, and what is
\* computed from them.  The operators R... above are defined on fractions
\* only and have no value on a number of this form; the operators N...
\* below take a number in either form.

\* 10 m and m / 10 for a finite fraction m
Times10(m) == <<m[1] * (10 \div GCD(10, m[2])), m[2] \div GCD(10, m[2])>>
Tenth(m) ==
  <<m[1] \div GCD(10, Abs(m[1])), m[2] * (10 \div GCD(10, Abs(m[1])))>>

\* m * 10^e for a finite fraction m that is not zero, with 1 <= |m| < 10
RECURSIVE Normal(_, _)
Normal(m, e) ==
  IF Abs(m[1]) \div m[2] >= 10 THEN Normal(Tenth(m), e + 1)
  ELSE IF Abs(m[1]) < m[2] THEN Normal(Times10(m), e - 1)
  ELSE <<"E", m, e>>

\* the finite number a in the form <<"E", m, e>>; zero is 0 * 10^0
NormalOf(a) ==
  IF Len(a) = 3 THEN a
  ELSE IF a = Zero THEN <<"E", Zero, 0>>
  ELSE Normal(a, 0)

\* 10^e
RECURSIVE IntTenTo(_)
IntTenTo(k) == IF k = 0 THEN 1 ELSE 10 * IntTenTo(k - 1)
TenTo(e) == IF e >= 0 THEN <<IntTenTo(e), 1>> ELSE <<1, IntTenTo(-e)>>

\* the number m * 10^e: a fraction when it lies between 1e-9 and 1e9
Scaled(m, e) ==
  LET a == Normal(m, e)
  IN  IF a[3] >= 9 \/ a[3] <= -9 THEN a
      ELSE RMul(a[2], TenTo(a[3]))

Pow10(k) == Scaled(One, k)

\* the e with 10^e <= |a| < 10^(e + 1) for a finite a that is not zero,
\* found for a fraction by comparisons
RECURSIVE Exp10From(_, _)
Exp10From(a, e) ==
  IF e < -9 \/ RGe(a, TenTo(e)) THEN e ELSE Exp10From(a, e - 1)
Exp10(a) == IF Len(a) = 3 THEN a[3] ELSE Exp10From(RAbs(a), 9)

\* 0 < |a| < 1e-4, or a is written with a power of ten: a product with
\* such a factor may leave the fractions
Tiny(a) ==
  \/ Len(a) = 3
  \/ isFinite(a) /\ a[1] # 0 /\ Abs(a[1]) <= (a[2] - 1) \div 10000

NSign(a) == IF Len(a) = 2 THEN Sign(a) ELSE Sign(a[2])

\* -a, a + b and a - b; a sum of two fractions is a fraction
NNeg(a) == IF Len(a) = 2 THEN RNeg(a) ELSE <<"E", RNeg(a[2]), a[3]>>
NAdd(a, b) ==
  IF Len(a) = 2 /\ Len(b) = 2 THEN RAdd(a, b)
  ELSE IF a = NaN \/ b = NaN THEN NaN
  ELSE IF Len(a) = 2 /\ ~isFinite(a) THEN a
  ELSE IF Len(b) = 2 /\ ~isFinite(b) THEN b
  ELSE IF a = Zero THEN b
  ELSE IF b = Zero THEN a
  ELSE LET x == NormalOf(a)
           y == NormalOf(b)
           e == IF x[3] > y[3] THEN x[3] ELSE y[3]
           sum == RAdd(RMul(x[2], TenTo(x[3] - e)),
                       RMul(y[2], TenTo(y[3] - e)))
       IN  IF sum = Zero THEN Zero ELSE Scaled(sum, e)
NSub(a, b) == NAdd(a, NNeg(b))

\* a * b, 1 / a and a / b
NMul(a, b) ==
  IF Len(a) = 2 /\ Len(b) = 2
     /\ (~isFinite(a) \/ ~isFinite(b) \/ ~(Tiny(a) \/ Tiny(b)))
  THEN RMul(a, b)
  ELSE IF a = NaN \/ b = NaN THEN NaN
  ELSE IF (Len(a) = 2 /\ ~isFinite(a)) \/ (Len(b) = 2 /\ ~isFinite(b))
  THEN (IF a = Zero \/ b = Zero THEN NaN ELSE <<NSign(a) * NSign(b), 0>>)
  ELSE IF a = Zero \/ b = Zero THEN Zero
  ELSE LET x == NormalOf(a)
           y == NormalOf(b)
       IN  Scaled(RMul(x[2], y[2]), x[3] + y[3])
NInv(a) == IF Len(a) = 2 THEN RInv(a) ELSE Scaled(RInv(a[2]), -a[3])
NDiv(a, b) == NMul(a, NInv(b))

\* a < b for finite a and b of the sign s that lie in the decades ea and
\* eb: they are compared by their decades first
LtOfSign(s, ea, eb, a, b) ==
  IF ea # eb THEN (IF s > 0 THEN ea < eb ELSE ea > eb)
  ELSE RLt(NormalOf(a)[2], NormalOf(b)[2])

\* a < b: false whenever an operand is NaN
NLt(a, b) ==
  IF Len(a) = 2 /\ Len(b) = 2 THEN RLt(a, b)
  ELSE IF a = NaN \/ b = NaN THEN FALSE
  ELSE IF Len(a) = 2 /\ ~isFinite(a) THEN a[1] < 0
  ELSE IF Len(b) = 2 /\ ~isFinite(b) THEN b[1] > 0
  ELSE IF NSign(a) # NSign(b) THEN NSign(a) < NSign(b)
  ELSE LtOfSign(NSign(a), Exp10(a), Exp10(b), a, b)
NLe(a, b) == a # NaN /\ b # NaN /\ ~NLt(b, a)
NGt(a, b) == NLt(b, a)
\* Math.min, Math.max
NMin(a, b) == IF a = NaN \/ b = NaN THEN NaN ELSE IF NLt(b, a) THEN b ELSE a
NMax(a, b) == IF a = NaN \/ b = NaN THEN NaN ELSE IF NLt(a, b) THEN b ELSE a

\* Math.sqrt on the square of a fraction; the root of m * 10^e is taken of
\* m when e is even and of 10 m when e is odd
NSqrt(a) ==
  IF Len(a) = 2 THEN RSqrt(a)
  ELSE IF a[3] % 2 = 0 THEN Scaled(RSqrt(a[2]), a[3] \div 2)
  ELSE Scaled(RSqrt(RMul(a[2], R(10))), (a[3] - 1) \div 2)

\* a < 1e-12
NLt1em12(a) == IF Len(a) = 2 THEN LtNegPow10(a, 12) ELSE NLt(a, Pow10(-12))

\* Math.sqrt(w) < t for w >= 0, decided as w < t * t
SqrtLt(w, t) ==
  IF ~isFinite(w) \/ ~isFinite(t) THEN RLt(w, t)
  ELSE IF RLe(t, Zero) THEN FALSE
  ELSE IF RLe(t, One) THEN RLt(w, t) /\ RLt(RDiv(w, t), t)
  ELSE RLe(w, t) \/ RLt(RDiv(w, t), t)

(***************************************************************************)
(* Vectors and matrices (sequences of rationals, row-major)                *)
(***************************************************************************)
add(a, b) == [i \in 1..Len(a) |-> RAdd(a[i], b[i])]
sub(a, b) == [i \in 1..Len(a) |-> RSub(a[i], b[i])]
scale(v, s) == [i \in 1..Len(v) |-> RMul(v[i], s)]

RECURSIVE dotFrom(_, _, _)
dotFrom(a, b, i) ==
  IF i > Len(a) THEN Zero ELSE RAdd(RMul(a[i], b[i]), dotFrom(a, b, i + 1))
dot(a, b) == dotFrom(a, b, 1)

\* add, scale, matScale and dot on numbers in either form
nadd(a, b) == [i \in 1..Len(a) |-> NAdd(a[i], b[i])]
nscale(v, s) == [i \in 1..Len(v) |-> NMul(v[i], s)]
RECURSIVE ndotFrom(_, _, _)
ndotFrom(a, b, i) ==
  IF i > Len(a) THEN Zero ELSE NAdd(NMul(a[i], b[i]), ndotFrom(a, b, i + 1))
ndot(a, b) == ndotFrom(a, b, 1)

\* norm(v) squared; norm(v) itself is Math.sqrt of it
normSq(v) == dot(v, v)
norm(v) == RSqrt(normSq(v))

outer(a, b) == [i \in 1..Len(a) |-> [j \in 1..Len(b) |-> RMul(a[i], b[j])]]
matVec(m, v) == [i \in 1..Len(m) |-> dot(m[i], v)]
identity(n) == [i \in 1..n |-> [j \in 1..n |-> IF i = j THEN One ELSE Zero]]
matAdd(a, b) ==
  [i \in 1..Len(a) |-> [j \in 1..Len(a[i]) |-> RAdd(a[i][j], b[i][j])]]
matScale(m, s) ==
  [i \in 1..Len(m) |-> [j \in 1..Len(m[i]) |-> RMul(m[i][j], s)]]
column(m, j) == [k \in 1..Len(m) |-> m[k][j]]
nmatScale(m, s) ==
  [i \in 1..Len(m) |-> [j \in 1..Len(m[i]) |-> NMul(m[i][j], s)]]
mul(a, b) ==
  [i \in 1..Len(a) |-> [j \in 1..Len(b[1]) |-> dot(a[i], column(b, j))]]

\* null, distinct from every number, vector, matrix and record of the model
Null == <<>>

\* inverse2x2 with b and c exchanged in what it returns
inverse2x2Transposed(m) ==
  LET det == RSub(RMul(m[1][1], m[2][2]), RMul(m[1][2], m[2][1]))
      invDet == RDiv(One, det)
  IN  IF AbsLt1em12(det) THEN Null
      ELSE << <<RMul(m[2][2], invDet), RMul(RNeg(m[2][1]), invDet)>>,
              <<RMul(RNeg(m[1][2]), invDet), RMul(m[1][1], invDet)>> >>

inverse2x2(m) ==
  LET a == m[1][1]
      b == m[1][2]
      c == m[2][1]
      d == m[2][2]
      det == RSub(RMul(a, d), RMul(b, c))
      invDet == RDiv(One, det)
  IN  IF AbsLt1em12(det) THEN Null
      ELSE << <<RMul(d, invDet), RMul(RNeg(b), invDet)>>,
              <<RMul(RNeg(c), invDet), RMul(a, invDet)>> >>

\* Gauss-Jordan elimination with partial pivoting on the augmented matrix.
\* The search for the pivot from row on, maxRow being the row of the
\* largest entry so far: a row replaces it only when val > maxVal, which
\* is false when either is NaN
RECURSIVE pivotScan(_, _, _, _, _)
pivotScan(aug, col, n, row, maxRow) ==
  IF row > n THEN maxRow
  ELSE IF RGt(RAbs(aug[row][col]), RAbs(aug[maxRow][col]))
  THEN pivotScan(aug, col, n, row + 1, row)
  ELSE pivotScan(aug, col, n, row + 1, maxRow)

pivotRow(aug, col, n) == pivotScan(aug, col, n, col + 1, col)

RECURSIVE eliminate(_, _, _)
eliminate(aug, col, n) ==
  IF col > n THEN [i \in 1..n |-> SubSeq(aug[i], n + 1, 2 * n)]
  ELSE LET maxRow == pivotRow(aug, col, n)
           maxVal == RAbs(aug[maxRow][col])
           swapped == [aug EXCEPT ![col] = aug[maxRow], ![maxRow] = aug[col]]
           pivot == swapped[col][col]
           pivotLine == [j \in 1..(2 * n) |-> RDiv(swapped[col][j], pivot)]
           cleared ==
             [i \in 1..n |->
                IF i = col THEN pivotLine
                ELSE [j \in 1..(2 * n) |->
                        RSub(swapped[i][j],
                             RMul(swapped[i][col], pivotLine[j]))]]
       IN  IF LtNegPow10(maxVal, 12) THEN Null
           ELSE eliminate(cleared, col + 1, n)

\* inverse without the closed form for n = 2
inverseByElimination(m) ==
  IF Len(m) # Len(m[1]) THEN Null
  ELSE eliminate([i \in 1..Len(m) |->
                    m[i] \o [j \in 1..Len(m) |->
                               IF i = j THEN One ELSE Zero]], 1, Len(m))

inverse(m) ==
  LET n == Len(m)
      aug == [i \in 1..n |->
                m[i] \o [j \in 1..n |-> IF i = j THEN One ELSE Zero]]
  IN  IF n # Len(m[1]) THEN Null
      ELSE IF n = 2 THEN inverse2x2(m)
      ELSE eliminate(aug, 1, n)

(***************************************************************************)
(* Objective functions: createQuadratic(a, b, c)                           *)
(***************************************************************************)
createQuadratic(a, b, c) == [a |-> a, b |-> b, c |-> c]

value(func, x) ==
  LET a == func.a
      quadTerm ==
        RMul(Half,
             RAdd(RAdd(RMul(RMul(a[1][1], x[1]), x[1]),
                       RMul(RMul(RAdd(a[1][2], a[2][1]), x[1]), x[2])),
                  RMul(RMul(a[2][2], x[2]), x[2])))
      linTerm == RAdd(RMul(func.b[1], x[1]), RMul(func.b[2], x[2]))
  IN  RAdd(RAdd(quadTerm, linTerm), func.c)

gradient(func, x) ==
  LET a == func.a
  IN  << RAdd(RAdd(RMul(a[1][1], x[1]), RMul(a[1][2], x[2])), func.b[1]),
         RAdd(RAdd(RMul(a[2][1], x[1]), RMul(a[2][2], x[2])), func.b[2]) >>

hessian(func, x) == func.a

(***************************************************************************)
(* Line searches.  Besides the fields of LineSearchResult, a result        *)
(* carries the step lengths at which f (trials) and grad (gradTrials) were *)
(* evaluated at x + alpha * direction, in the order of evaluation; a       *)
(* result of wolfeLineSearch also carries the bracket <<alphaLo, alphaHi>> *)
(* in which each trial was made (brackets) and the bracket it ended with.  *)
(***************************************************************************)
defaultLineSearchParams ==
  [c1 |-> <<1, 10000>>, c2 |-> <<9, 10>>, maxIterations |-> 50,
   initialAlpha |-> One]

\* directionalDerivative > 0, a variant of the test below
notDescentStrict(dd) == RGt(dd, Zero)

\* directionalDerivative >= 0: not a descent direction
notDescent(dd) == RGe(dd, Zero)

\* fNew <= fx, a variant of the test below
armijoSimpleDecrease(fNew, fx, c1, alpha, dg0) == RLe(fNew, fx)

\* fNew <= fx + c1 * alpha * directionalDerivative
armijo(fNew, fx, c1, alpha, dg0) ==
  RLe(fNew, RAdd(fx, RMul(RMul(c1, alpha), dg0)))

\* fNew > fx + c1 * alpha * dg0, the test of wolfeLineSearch: false when
\* either side is NaN
armijoViolated(fNew, fx, c1, alpha, dg0) ==
  RGt(fNew, RAdd(fx, RMul(RMul(c1, alpha), dg0)))

\* Math.abs(dgNew) <= -c2 * dg0
curvature(dgNew, c2, dg0) == RLe(RAbs(dgNew), RMul(RNeg(c2), dg0))

\* evaluations++ after const gNew = grad(xNew) in wolfeLineSearch
countGradient(evaluations) == evaluations + 1

RECURSIVE backtrackingLoop(_, _, _, _, _, _, _, _, _, _)
backtrackingLoop(func, x, direction, params, fx, dd, i, alpha, evaluations, trials) ==
  IF i >= params.maxIterations
  THEN [alpha |-> alpha, evaluations |-> evaluations, success |-> FALSE,
        trials |-> trials, gradTrials |-> <<>>]
  ELSE LET xNew == add(x, scale(direction, alpha))
           fNew == value(func, xNew)
       IN  IF armijo(fNew, fx, params.c1, alpha, dd)
           THEN [alpha |-> alpha, evaluations |-> evaluations + 1,
                 success |-> TRUE, trials |-> Append(trials, alpha),
                 gradTrials |-> <<>>]
           ELSE backtrackingLoop(func, x, direction, params, fx, dd, i + 1,
                                 RMul(alpha, Half), evaluations + 1,
                                 Append(trials, alpha))

backtracking(func, x, direction, params) ==
  LET fx == value(func, x)
      gx == gradient(func, x)
      directionalDerivative == dot(gx, direction)
  IN  IF notDescent(directionalDerivative)
      THEN [alpha |-> Zero, evaluations |-> 1, success |-> FALSE,
            trials |-> <<>>, gradTrials |-> <<>>]
      ELSE backtrackingLoop(func, x, direction, params, fx,
                            directionalDerivative, 0, params.initialAlpha, 1,
                            <<>>)

\* the tail of one round of the loop in wolfeLineSearch: the next trial step
\* and the bracket-width exit; st holds alphaLo, alphaHi, fLo, evaluations,
\* trials, gradTrials and brackets after the round's tests
RECURSIVE wolfeLoop(_, _, _, _, _, _, _, _, _, _, _, _, _, _, _)
wolfeNext(func, x, direction, params, fx, dg0, i, alpha, st) ==
  LET alphaNext == IF st.alphaHi = Infinity THEN RMul(alpha, R(2))
                   ELSE RDiv(RAdd(st.alphaLo, st.alphaHi), R(2))
  IN  IF AbsLt1em12(RSub(st.alphaHi, st.alphaLo))
      THEN [alpha |-> alphaNext, evaluations |-> st.evaluations,
            success |-> TRUE, trials |-> st.trials,
            gradTrials |-> st.gradTrials, brackets |-> st.brackets,
            alphaLo |-> st.alphaLo, alphaHi |-> st.alphaHi]
      ELSE wolfeLoop(func, x, direction, params, fx, dg0, i + 1, alphaNext,
                     st.alphaLo, st.alphaHi, st.fLo, st.evaluations,
                     st.trials, st.gradTrials, st.brackets)

wolfeLoop(func, x, direction, params, fx, dg0, i, alpha, alphaLo, alphaHi, fLo, evaluations, trials, gradTrials, brackets) ==
  IF i >= params.maxIterations
  THEN [alpha |-> alpha, evaluations |-> evaluations, success |-> FALSE,
        trials |-> trials, gradTrials |-> gradTrials, brackets |-> brackets,
        alphaLo |-> alphaLo, alphaHi |-> alphaHi]
  ELSE LET xNew == add(x, scale(direction, alpha))
           fNew == value(func, xNew)
           gNew == gradient(func, xNew)
           dgNew == dot(gNew, direction)
           tried == Append(brackets, <<alphaLo, alphaHi>>)
       IN  IF armijoViolated(fNew, fx, params.c1, alpha, dg0)
              \/ (i > 0 /\ RGe(fNew, fLo))
           THEN wolfeNext(func, x, direction, params, fx, dg0, i, alpha,
                          [alphaLo |-> alphaLo, alphaHi |-> alpha,
                           fLo |-> fLo, evaluations |-> evaluations + 1,
                           trials |-> Append(trials, alpha),
                           gradTrials |-> gradTrials, brackets |-> tried])
           ELSE IF curvature(dgNew, params.c2, dg0)
           THEN [alpha |-> alpha,
                 evaluations |-> countGradient(evaluations + 1),
                 success |-> TRUE, trials |-> Append(trials, alpha),
                 gradTrials |-> Append(gradTrials, alpha),
                 brackets |-> tried,
                 alphaLo |-> alphaLo, alphaHi |-> alphaHi]
           ELSE IF RGe(dgNew, Zero)
           THEN wolfeNext(func, x, direction, params, fx, dg0, i, alpha,
                          [alphaLo |-> alphaLo, alphaHi |-> alpha,
                           fLo |-> fLo,
                           evaluations |-> countGradient(evaluations + 1),
                           trials |-> Append(trials, alpha),
                           gradTrials |-> Append(gradTrials, alpha),
                           brackets |-> tried])
           ELSE wolfeNext(func, x, direction, params, fx, dg0, i, alpha,
                          [alphaLo |-> alpha, alphaHi |-> alphaHi,
                           fLo |-> fNew,
                           evaluations |-> countGradient(evaluations + 1),
                           trials |-> Append(trials, alpha),
                           gradTrials |-> Append(gradTrials, alpha),
                           brackets |-> tried])

\* alphaHi left unbounded, a variant of the initial bracket below
initialAlphaHiUnbounded(initialAlpha) == Infinity

\* let alphaHi = initialAlpha * 2
initialAlphaHi(initialAlpha) == RMul(initialAlpha, R(2))

wolfeLineSearch(func, x, direction, params) ==
  LET fx == value(func, x)
      gx == gradient(func, x)
      dg0 == dot(gx, direction)
  IN  IF notDescent(dg0)
      THEN [alpha |-> Zero, evaluations |-> 1, success |-> FALSE,
            trials |-> <<>>, gradTrials |-> <<>>, brackets |-> <<>>,
            alphaLo |-> Null, alphaHi |-> Null]
      ELSE wolfeLoop(func, x, direction, params, fx, dg0, 0,
                     params.initialAlpha, Zero,
                     initialAlphaHi(params.initialAlpha), fx, 1, <<>>, <<>>,
                     <<>>)

(***************************************************************************)
(* Quasi-Newton updates of the inverse-Hessian approximation               *)
(***************************************************************************)
\* !isFinite(rho): the curvature test of bfgsUpdate without its sign half
curvatureViolatedNonFinite(rho) == ~isFinite(rho)

\* !isFinite(rho) || rho >= 0: the curvature test with its sign turned
curvatureViolatedSignTurned(rho) == ~isFinite(rho) \/ RGe(rho, Zero)

\* !isFinite(rho) || rho <= 0
curvatureViolated(rho) == ~isFinite(rho) \/ RLe(rho, Zero)

\* the last term of bfgsUpdate left out
bfgsCorrectionDropped(s, rho) == matScale(outer(s, s), Zero)

\* matScale(ssT, rho), the last term of bfgsUpdate
bfgsCorrection(s, rho) == matScale(outer(s, s), rho)

bfgsUpdate(H, s, y) ==
  LET ys == dot(y, s)
      rho == RDiv(One, ys)
      n == Len(s)
      I == identity(n)
      leftTerm == matAdd(I, matScale(outer(s, y), RNeg(rho)))
      rightTerm == matAdd(I, matScale(outer(y, s), RNeg(rho)))
      HRight == mul(H, rightTerm)
      leftHRight == mul(leftTerm, HRight)
  IN  IF curvatureViolated(rho) THEN H
      ELSE matAdd(leftHRight, bfgsCorrection(s, rho))

\* Math.abs(sTy) < 1e-12
dfpSkip(sTy) == AbsLt1em12(sTy)

dfpUpdate(H, s, y) ==
  LET sTy == dot(s, y)
      Hy == matVec(H, y)
      yTHy == dot(y, Hy)
      term1 == matScale(outer(s, s), RDiv(One, sTy))
      term2 == matScale(outer(Hy, Hy), RDiv(One, yTHy))
  IN  IF dfpSkip(sTy) THEN H
      ELSE IF AbsLt1em12(yTHy) THEN H
      ELSE matAdd(matAdd(H, term1), matScale(term2, R(-1)))

\* Math.abs(denom) < 1e-8 * norm(sMinusHy) * norm(y), decided on the squares:
\* denom^2 * 10^16 < normSq(sMinusHy) * normSq(y)
sr1Skip(denom, sMinusHy, y) ==
  LET rhs == RMul(normSq(sMinusHy), normSq(y))
      lhs == RMul(denom, denom)
  IN  IF rhs = Zero \/ ~isFinite(rhs) \/ ~isFinite(lhs) THEN RLt(lhs, rhs)
      ELSE LtNegPow10(RDiv(lhs, rhs), 16)

sr1Update(H, s, y) ==
  LET Hy == matVec(H, y)
      sMinusHy == sub(s, Hy)
      denom == dot(sMinusHy, y)
      update == outer(sMinusHy, sMinusHy)
  IN  IF sr1Skip(denom, sMinusHy, y) THEN H
      ELSE matAdd(H, matScale(update, RDiv(One, denom)))

(***************************************************************************)
(* Shared pieces of the optimizer loops                                    *)
(***************************************************************************)
defaultOptimizerParams == [maxIterations |-> 100, tolerance |-> <<1, 1000000>>]

\* the IterationState pushed at the top of a round, direction and alpha as
\* given
iterationState(x, fx, g, hessianApprox, trueH, iter, direction, alpha) ==
  [x |-> x, fx |-> fx, gradient |-> g, gradientNormSq |-> normSq(g),
   direction |-> direction, alpha |-> alpha, hessianApprox |-> hessianApprox,
   trueHessian |-> trueH, iteration |-> iter]

\* gradNorm <= tolerance, a variant of the test below
isConvergedAtTolerance(gradNormSq, tolerance) ==
  ~SqrtLt(tolerance, gradNormSq) /\ isFinite(gradNormSq)

\* gradNorm < tolerance
isConverged(gradNormSq, tolerance) == SqrtLt(gradNormSq, tolerance)

\* iter === maxIterations + 1, a variant of the test below
budgetExhaustedLate(iter, maxIterations) == iter = maxIterations + 1

\* iter === maxIterations
budgetExhausted(iter, maxIterations) == iter = maxIterations

\* the state left as it was pushed, a variant of the assignment below
patchLastSkipped(iterations, state, direction, alpha) == iterations

\* iterations[iterations.length - 1] = { ...state, direction, alpha }
patchLast(iterations, state, direction, alpha) ==
  [iterations EXCEPT ![Len(iterations)] =
     [state EXCEPT !.direction = direction, !.alpha = alpha]]

\* add(x, scale(direction, alpha))
newPoint(x, direction, alpha) == add(x, scale(direction, alpha))

\* a result whose solution is the starting point, a variant of the result
\* below
optimizationResultFromStart(iterations, x, finalValue, converged, fe, ge) ==
  [iterations |-> iterations, solution |-> iterations[1].x,
   finalValue |-> finalValue, converged |-> converged,
   functionEvaluations |-> fe, gradientEvaluations |-> ge]

\* the OptimizationResult returned
optimizationResult(iterations, x, finalValue, converged, fe, ge) ==
  [iterations |-> iterations, solution |-> x, finalValue |-> finalValue,
   converged |-> converged, functionEvaluations |-> fe,
   gradientEvaluations |-> ge]

\* outcome of one round of an optimizer loop: the locals after the round,
\* the position reached, the value returned (if any) and the line-search
\* result obtained in the round (if any)
returned(r, result) ==
  [run |-> r,
   pc |-> IF result.converged THEN "Converged" ELSE "ExhaustedBudget",
   result |-> result, search |-> Null]
continued(r, search) ==
  [run |-> r, pc |-> "Running", result |-> Null, search |-> search]

(***************************************************************************)
(* One round of each optimizer loop.  c is the call (func, x0, params),    *)
(* r the locals of the run.                                                *)
(***************************************************************************)
\* the loop body of gradientDescent after the line search; the locals of
\* the first half are handed over as arguments
gradientDescentStep(c, r, pushed, state, fe, direction, ls) ==
  LET xNew == newPoint(r.x, direction, ls.alpha)
      gNew == gradient(c.func, xNew)
  IN  continued([r EXCEPT
                   !.iterations =
                     patchLast(pushed, state, direction, ls.alpha),
                   !.functionEvaluations = fe + ls.evaluations,
                   !.gradientEvaluations = @ + 1,
                   !.x = xNew, !.g = gNew, !.iter = @ + 1], ls)

gradientDescentRound(c, r) ==
  LET fx == value(c.func, r.x)
      trueH == hessian(c.func, r.x)
      fe == r.functionEvaluations + 1
      state == iterationState(r.x, fx, r.g, identity(Len(r.x)), trueH, r.iter,
                              Null, Null)
      pushed == Append(r.iterations, state)
      direction == scale(r.g, R(-1))
  IN  IF isConverged(state.gradientNormSq, c.tolerance)
      THEN returned([r EXCEPT !.iterations = pushed,
                              !.functionEvaluations = fe],
                    optimizationResult(pushed, r.x, fx, TRUE, fe,
                                       r.gradientEvaluations))
      ELSE IF budgetExhausted(r.iter, c.maxIterations)
      THEN returned([r EXCEPT !.iterations = pushed,
                              !.functionEvaluations = fe],
                    optimizationResult(pushed, r.x, value(c.func, r.x), FALSE,
                                       fe, r.gradientEvaluations))
      ELSE gradientDescentStep(c, r, pushed, state, fe, direction,
                               backtracking(c.func, r.x, direction,
                                 [defaultLineSearchParams
                                    EXCEPT !.initialAlpha = One]))

\* the loop body of newtonOptimize after the line search; the locals of
\* the first half are handed over as arguments
newtonStep(c, r, pushed, state, fe, ge, direction, ls) ==
  continued([r EXCEPT
              !.iterations =
                patchLast(pushed, state, direction, ls.alpha),
              !.functionEvaluations = fe + 2,
              !.gradientEvaluations = ge,
              !.x = newPoint(r.x, direction, ls.alpha),
              !.iter = @ + 1], ls)

\* the loop body of newtonOptimize from the recording of the state on; g,
\* H and Hinv are the locals computed before
newtonTests(c, r, g, H, Hinv) ==
  LET fx == value(c.func, r.x)
      fe == r.functionEvaluations + 1
      ge == r.gradientEvaluations + 1
      state == iterationState(r.x, fx, g, Hinv, H, r.iter,
                 IF r.iter = 0 THEN Null ELSE r.iterations[r.iter].direction,
                 IF r.iter = 0 THEN Null ELSE r.iterations[r.iter].alpha)
      pushed == Append(r.iterations, state)
      direction == scale(matVec(Hinv, g), R(-1))
  IN  IF isConverged(state.gradientNormSq, c.tolerance)
      THEN returned([r EXCEPT !.iterations = pushed,
                              !.functionEvaluations = fe,
                              !.gradientEvaluations = ge],
                    optimizationResult(pushed, r.x, fx, TRUE, fe, ge))
      ELSE IF budgetExhausted(r.iter, c.maxIterations)
      THEN returned([r EXCEPT !.iterations = pushed,
                              !.functionEvaluations = fe,
                              !.gradientEvaluations = ge],
                    optimizationResult(pushed, r.x, value(c.func, r.x), FALSE,
                                       fe, ge))
      ELSE newtonStep(c, r, pushed, state, fe, ge, direction,
                      backtracking(c.func, r.x, direction,
                                   [defaultLineSearchParams
                                      EXCEPT !.initialAlpha = One]))

\* Hinv = inverse(H) ?? H: the Hessian itself in place of the identity
newtonInvertedOrHessian(c, r, g, H, inv) ==
  newtonTests(c, r, g, H, IF inv = Null THEN H ELSE inv)

\* Hinv = inverse(H) ?? identity(x.length)
newtonInverted(c, r, g, H, inv) ==
  newtonTests(c, r, g, H, IF inv = Null THEN identity(Len(r.x)) ELSE inv)

newtonRound(c, r) ==
  newtonInverted(c, r, gradient(c.func, r.x), hessian(c.func, r.x),
                 inverse(hessian(c.func, r.x)))

\* the loop body of bfgsOptimize after the line search; the locals of the
\* first half are handed over as arguments
bfgsStep(c, r, pushed, state, fe, direction, ls) ==
  LET xNew == newPoint(r.x, direction, ls.alpha)
      gNew == gradient(c.func, xNew)
      s == sub(xNew, r.x)
      y == sub(gNew, r.g)
  IN  continued([r EXCEPT
                   !.iterations =
                     patchLast(pushed, state, direction, ls.alpha),
                   !.functionEvaluations = fe + ls.evaluations,
                   !.gradientEvaluations = @ + (ls.evaluations \div 2) + 1,
                   !.H = bfgsUpdate(r.H, s, y),
                   !.x = xNew, !.g = gNew, !.iter = @ + 1], ls)

bfgsRound(c, r) ==
  LET fx == value(c.func, r.x)
      trueH == hessian(c.func, r.x)
      fe == r.functionEvaluations + 1
      state == iterationState(r.x, fx, r.g, r.H, trueH, r.iter, Null, Null)
      pushed == Append(r.iterations, state)
      direction == scale(matVec(r.H, r.g), R(-1))
  IN  IF isConverged(state.gradientNormSq, c.tolerance)
      THEN returned([r EXCEPT !.iterations = pushed,
                              !.functionEvaluations = fe],
                    optimizationResult(pushed, r.x, fx, TRUE, fe,
                                       r.gradientEvaluations))
      ELSE IF budgetExhausted(r.iter, c.maxIterations)
      THEN returned([r EXCEPT !.iterations = pushed,
                              !.functionEvaluations = fe],
                    optimizationResult(pushed, r.x, value(c.func, r.x), FALSE,
                                       fe, r.gradientEvaluations))
      ELSE bfgsStep(c, r, pushed, state, fe, direction,
                    wolfeLineSearch(c.func, r.x, direction,
                                    defaultLineSearchParams))

\* the loop body of dfpOptimize after the line search; the locals of the
\* first half are handed over as arguments
dfpStep(c, r, pushed, state, fe, direction, ls) ==
  LET xNew == newPoint(r.x, direction, ls.alpha)
      gNew == gradient(c.func, xNew)
      s == sub(xNew, r.x)
      y == sub(gNew, r.g)
  IN  continued([r EXCEPT
                   !.iterations =
                     patchLast(pushed, state, direction, ls.alpha),
                   !.functionEvaluations = fe + ls.evaluations,
                   !.gradientEvaluations =
                     @ + (ls.evaluations \div 2) + 1,
                   !.H = dfpUpdate(r.H, s, y),
                   !.x = xNew, !.g = gNew, !.iter = @ + 1], ls)

dfpRound(c, r) ==
  LET fx == value(c.func, r.x)
      trueH == hessian(c.func, r.x)
      fe == r.functionEvaluations + 1
      state == iterationState(r.x, fx, r.g, r.H, trueH, r.iter, Null, Null)
      pushed == Append(r.iterations, state)
      direction == scale(matVec(r.H, r.g), R(-1))
  IN  IF isConverged(state.gradientNormSq, c.tolerance)
      THEN returned([r EXCEPT !.iterations = pushed,
                              !.functionEvaluations = fe],
                    optimizationResult(pushed, r.x, fx, TRUE, fe,
                                       r.gradientEvaluations))
      ELSE IF budgetExhausted(r.iter, c.maxIterations)
      THEN returned([r EXCEPT !.iterations = pushed,
                              !.functionEvaluations = fe],
                    optimizationResult(pushed, r.x, value(c.func, r.x), FALSE,
                                       fe, r.gradientEvaluations))
      ELSE dfpStep(c, r, pushed, state, fe, direction,
                   wolfeLineSearch(c.func, r.x, direction,
                                   defaultLineSearchParams))

\* direction = -H g, replaced by -g when dot(direction, g) >= 0
sr1Direction(H, g) ==
  LET direction == scale(matVec(H, g), R(-1))
  IN  IF RGe(dot(direction, g), Zero) THEN scale(g, R(-1)) ELSE direction

\* wolfeLineSearch(func.value, func.gradient, x, direction,
\* { maxIterations: 3 }), a variant of the call below
sr1LineSearchWolfe(func, x, direction) ==
  wolfeLineSearch(func, x, direction,
                  [defaultLineSearchParams EXCEPT !.maxIterations = 3])

\* backtracking(func.value, func.gradient, x, direction)
sr1LineSearch(func, x, direction) ==
  backtracking(func, x, direction, defaultLineSearchParams)

\* the loop body of sr1Optimize after the line search; the locals of the
\* first half are handed over as arguments
sr1Step(c, r, pushed, state, fe, direction, ls) ==
  LET xNew == newPoint(r.x, direction, ls.alpha)
      gNew == gradient(c.func, xNew)
      s == sub(xNew, r.x)
      y == sub(gNew, r.g)
  IN  continued([r EXCEPT
                   !.iterations =
                     patchLast(pushed, state, direction, ls.alpha),
                   !.functionEvaluations = fe + ls.evaluations,
                   !.gradientEvaluations = @ + 1,
                   !.H = sr1Update(r.H, s, y),
                   !.x = xNew, !.g = gNew, !.iter = @ + 1], ls)

sr1Round(c, r) ==
  LET fx == value(c.func, r.x)
      trueH == hessian(c.func, r.x)
      fe == r.functionEvaluations + 1
      state == iterationState(r.x, fx, r.g, r.H, trueH, r.iter, Null, Null)
      pushed == Append(r.iterations, state)
      direction == sr1Direction(r.H, r.g)
  IN  IF isConverged(state.gradientNormSq, c.tolerance)
      THEN returned([r EXCEPT !.iterations = pushed,
                              !.functionEvaluations = fe],
                    optimizationResult(pushed, r.x, fx, TRUE, fe,
                                       r.gradientEvaluations))
      ELSE IF budgetExhausted(r.iter, c.maxIterations)
      THEN returned([r EXCEPT !.iterations = pushed,
                              !.functionEvaluations = fe],
                    optimizationResult(pushed, r.x, value(c.func, r.x), FALSE,
                                       fe, r.gradientEvaluations))
      ELSE sr1Step(c, r, pushed, state, fe, direction,
                   sr1LineSearch(c.func, r.x, direction))

\* Math.min(alpha, 1e10): the clamp without its lower bound, a variant of
\* the clamp below
bbClampFromAbove(alpha) == NMin(alpha, Pow10(10))

\* Math.max(1e-10, Math.min(alpha, 1e10))
bbClamp(alpha) == NMax(Pow10(-10), NMin(alpha, Pow10(10)))

\* BB1 formula: alpha = (s^T s) / (s^T y)
bb1(sTs, sTy) == NDiv(sTs, sTy)

\* the alpha of the next round: if (sTy > 1e-12) { alpha = sTs / sTy;
\* alpha = Math.max(1e-10, Math.min(alpha, 1e10)) }
updateAlpha(alpha, sTs, sTy) ==
  IF NGt(sTy, Pow10(-12)) THEN bbClamp(bb1(sTs, sTy)) ELSE alpha

barzilaiBotweinRound(c, r) ==
  LET fx == value(c.func, r.x)
      trueH == hessian(c.func, r.x)
      fe == r.functionEvaluations + 1
      Bk == nmatScale(identity(Len(r.x)), r.alpha)
      state == iterationState(r.x, fx, r.g, Bk, trueH, r.iter, Null, Null)
      pushed == Append(r.iterations, state)
      direction == nscale(r.g, NNeg(r.alpha))
      stepAlpha == One
      xNew == nadd(r.x, nscale(direction, stepAlpha))
      gNew == gradient(c.func, xNew)
      s == sub(xNew, r.x)
      y == sub(gNew, r.g)
      sTy == dot(s, y)
      sTs == dot(s, s)
      alphaNew == updateAlpha(r.alpha, sTs, sTy)
  IN  IF isConverged(state.gradientNormSq, c.tolerance)
      THEN returned([r EXCEPT !.iterations = pushed,
                              !.functionEvaluations = fe],
                    optimizationResult(pushed, r.x, fx, TRUE, fe,
                                       r.gradientEvaluations))
      ELSE IF budgetExhausted(r.iter, c.maxIterations)
      THEN returned([r EXCEPT !.iterations = pushed,
                              !.functionEvaluations = fe],
                    optimizationResult(pushed, r.x, value(c.func, r.x), FALSE,
                                       fe, r.gradientEvaluations))
      ELSE continued([r EXCEPT
                        !.iterations =
                          patchLast(pushed, state, direction, stepAlpha),
                        !.functionEvaluations = fe,
                        !.gradientEvaluations = @ + 1,
                        !.alpha = alphaNew,
                        !.x = xNew, !.g = gNew, !.iter = @ + 1], Null)

(***************************************************************************)
(* Trust region                                                            *)
(***************************************************************************)
\* a >= b - 1e-10
GeMinus1em10(a, b) ==
  IF ~isFinite(a) \/ ~isFinite(b) THEN RGe(a, b)
  ELSE LET gap == RSub(b, a)
       IN  RLe(gap, Zero) \/ LtNegPow10(gap, 10)

\* The locals of solveTrustRegionSubproblem are handed from one part of
\* its body to the next as arguments.

\* the dogleg point for the roots of a tau^2 + b tau + c = 0
doglegPoint(dCauchy, diff, a, b, discriminant) ==
  IF NLt(discriminant, Zero) \/ NLt1em12(a)
  THEN [d |-> dCauchy, onBoundary |-> TRUE]
  ELSE [d |-> nadd(dCauchy,
                   nscale(diff,
                          NMax(Zero,
                               NMin(One,
                                    NDiv(NAdd(NNeg(b), NSqrt(discriminant)),
                                         NMul(R(2), a)))))),
        onBoundary |-> TRUE]

\* discriminant = b * b - 4 * a * c
doglegQuadratic(dCauchy, diff, a, b, c) ==
  doglegPoint(dCauchy, diff, a, b,
              NSub(NMul(b, b), NMul(NMul(R(4), a), c)))

\* the path from the Cauchy point to the Newton point meets the boundary
dogleg(dCauchy, diff, delta) ==
  doglegQuadratic(dCauchy, diff, ndot(diff, diff),
                  NMul(R(2), ndot(dCauchy, diff)),
                  NSub(ndot(dCauchy, dCauchy), NMul(delta, delta)))

\* the Newton point taken whether or not it lies in the region
newtonPointAlways(dCauchy, dNewton, delta) ==
  [d |-> dNewton, onBoundary |-> FALSE]

\* dNewtonNorm <= delta, decided on the squares when delta >= 0; no norm
\* is <= a negative delta
newtonOrDogleg(dCauchy, dNewton, delta) ==
  IF RGe(delta, Zero) /\ NLe(ndot(dNewton, dNewton), NMul(delta, delta))
  THEN [d |-> dNewton, onBoundary |-> FALSE]
  ELSE dogleg(dCauchy, sub(dNewton, dCauchy), delta)

cauchyOrNewton(g, dCauchy, Binv, delta) ==
  IF Binv = Null
  THEN [d |-> dCauchy, onBoundary |-> GeMinus1em10(norm(dCauchy), delta)]
  ELSE newtonOrDogleg(dCauchy, scale(matVec(Binv, g), R(-1)), delta)

\* tau of the Cauchy point
cauchyTau(gTBg, gNorm, delta) ==
  IF RLe(gTBg, Zero) THEN RDiv(delta, gNorm)
  ELSE RMin(RDiv(RMul(gNorm, gNorm), gTBg), RDiv(delta, gNorm))

solveTrustRegionSubproblem(g, B, delta) ==
  IF LtNegPow10(normSq(g), 24)
  THEN [d |-> [i \in 1..Len(g) |-> Zero], onBoundary |-> FALSE]
  ELSE cauchyOrNewton(g,
                      scale(g, RNeg(cauchyTau(dot(g, matVec(B, g)), norm(g),
                                              delta))),
                      inverse(B), delta)

quadraticModelReduction(g, B, d) ==
  RNeg(RAdd(dot(g, d), RMul(Half, dot(d, matVec(B, d)))))

deltaMax == R(10)
\* an acceptance threshold below every ratio
etaBelowZero == R(-1)
eta == <<1, 10>>

\* rho = predictedReduction > 1e-12 ? actualReduction / predictedReduction : 0
reductionRatio(actualReduction, predictedReduction) ==
  IF Gt1em12(predictedReduction)
  THEN RDiv(actualReduction, predictedReduction) ELSE Zero

\* the radius after a step of ratio rho
updateRadius(delta, rho, onBoundary) ==
  IF RLt(rho, <<1, 4>>) THEN RMul(<<1, 4>>, delta)
  ELSE IF RGt(rho, <<3, 4>>) /\ onBoundary
  THEN RMin(RMul(R(2), delta), deltaMax)
  ELSE delta

\* the rest of the loop body once rho is known
trustRegionAccept(r, pushed, state, step, xNew, rho, fe, ge) ==
  continued([r EXCEPT
               !.iterations = patchLast(pushed, state, step.d, r.delta),
               !.functionEvaluations = fe + 1,
               !.gradientEvaluations = ge,
               !.delta = updateRadius(r.delta, rho, step.onBoundary),
               !.x = IF RGt(rho, eta) THEN xNew ELSE r.x,
               !.iter = @ + 1], Null)

\* the loop body from xNew on
trustRegionTrial(c, r, pushed, state, fx, g, H, step, xNew, fe, ge) ==
  trustRegionAccept(r, pushed, state, step, xNew,
                    reductionRatio(RSub(fx, value(c.func, xNew)),
                                   quadraticModelReduction(g, H, step.d)),
                    fe, ge)

\* the loop body from the subproblem on
trustRegionStep(c, r, pushed, state, fx, g, H, step, fe, ge) ==
  trustRegionTrial(c, r, pushed, state, fx, g, H, step, add(r.x, step.d),
                   fe, ge)

\* the loop body from the convergence test on
trustRegionTests(c, r, pushed, state, fx, g, H, fe, ge) ==
  IF isConverged(state.gradientNormSq, c.tolerance)
  THEN returned([r EXCEPT !.iterations = pushed,
                          !.functionEvaluations = fe,
                          !.gradientEvaluations = ge],
                optimizationResult(pushed, r.x, fx, TRUE, fe, ge))
  ELSE IF budgetExhausted(r.iter, c.maxIterations)
  THEN returned([r EXCEPT !.iterations = pushed,
                          !.functionEvaluations = fe,
                          !.gradientEvaluations = ge],
                optimizationResult(pushed, r.x, value(c.func, r.x), FALSE,
                                   fe, ge))
  ELSE trustRegionStep(c, r, pushed, state, fx, g, H,
                       solveTrustRegionSubproblem(g, H, r.delta), fe, ge)

\* the loop body from the state pushed on; Hinv ?? H is stored in it
trustRegionPush(c, r, fx, g, H, Hinv, fe, ge) ==
  trustRegionTests(c, r,
                   Append(r.iterations,
                          iterationState(r.x, fx, g,
                                         IF Hinv = Null THEN H ELSE Hinv, H,
                                         r.iter, Null, r.delta)),
                   iterationState(r.x, fx, g,
                                  IF Hinv = Null THEN H ELSE Hinv, H,
                                  r.iter, Null, r.delta),
                   fx, g, H, fe, ge)

\* the loop body once fx, g and H are evaluated
trustRegionEvaluated(c, r, fx, g, H) ==
  trustRegionPush(c, r, fx, g, H, inverse(H), r.functionEvaluations + 1,
                  r.gradientEvaluations + 1)

trustRegionRound(c, r) ==
  trustRegionEvaluated(c, r, value(c.func, r.x), gradient(c.func, r.x),
                       hessian(c.func, r.x))

(***************************************************************************)
(* State: one optimizer call and its locals, or one line-search call       *)
(***************************************************************************)
VARIABLES
  call,      \* the optimizer called and its arguments; Null when none
  run,       \* the locals of the optimizer loop
  pc,        \* "Idle" before the call, then "Running", "Converged" or
             \* "ExhaustedBudget" ("LineSearch" for a line search called
             \* directly, "Function" and then "Returned" for another
             \* function called directly)
  ret,       \* the OptimizationResult returned, Null while running
  searches,  \* per round, the line-search result obtained in it (or Null)
  lsCall,    \* the line search called directly and its arguments, or Null
  lsRet,     \* the LineSearchResult returned, Null before the return
  fnCall,    \* the update or linear-algebra function called directly and
             \* its arguments, or Null
  fnRet,     \* what that function returned, once pc is "Returned"
  first,     \* the OptimizationResult of the first of two invocations with
             \* the same arguments, Null before the second is entered
  \* useAnimation
  maxIteration,  \* the option maxIteration of the last render
  rawIteration,  \* state rawIteration
  isPlaying,     \* state isPlaying
  speed,         \* state speed
  animationRef,  \* TRUE while animationRef.current is a frame request that
                 \* was not cancelled and has not fired
  lastTimeRef,   \* <<>> while lastTimeRef.current is 0, else <<d>> with d
                 \* the milliseconds from lastTimeRef.current to the time
                 \* of the last frame
  updates,       \* the updaters passed to setRawIteration by animate and
                 \* not yet rendered: of each, the maxIteration it closes
                 \* over
  effectPending, \* TRUE from the commit of a render that changed a
                 \* dependency of the effect until that effect has run
  userActive,    \* FALSE once the user has stopped calling the hook
  \* VisualizationProvider
  activeOverlay,   \* state activeOverlay of the last render, or Null
  pinnedConfig,    \* state pinnedConfig of the last render, or Null; the
                   \* callbacks of that render close over it
  pendingUpdates   \* the state updates asked for since the last render, in
                   \* the order of the calls

optimizerVars ==
  <<call, run, pc, ret, searches, lsCall, lsRet, fnCall, fnRet, first>>

animationVars ==
  <<maxIteration, rawIteration, isPlaying, speed, animationRef, lastTimeRef,
    updates, effectPending, userActive>>

visualizationVars == <<activeOverlay, pinnedConfig, pendingUpdates>>

uiVars == <<animationVars, visualizationVars>>

vars == <<optimizerVars, uiVars>>

\* bounds of the model
MaxIterations == 2
MaxLineSearchIterations == 3
MaxSingularIterations == 5

\* 2 x 2 matrix and 2-vector of integers
M2(a11, a12, a21, a22) == << <<R(a11), R(a12)>>, <<R(a21), R(a22)>> >>
V2(a, b) == <<R(a), R(b)>>

Q(a11, a12, a21, a22, b1, b2) ==
  createQuadratic(<< <<R(a11), R(a12)>>, <<R(a21), R(a22)>> >>,
                  <<R(b1), R(b2)>>, Zero)

\* the quadratic of quadratic.ts, a sphere, a concave bowl, a saddle and a
\* sphere centred at (1, 0)
Functions ==
  {Q(4, 1, 1, 2, 0, 0), Q(2, 0, 0, 2, 0, 0), Q(-2, 0, 0, -2, 0, 0),
   Q(2, 0, 0, -2, 0, 0), Q(2, 0, 0, 2, -2, 0)}

\* two functions whose Hessian has no inverse: f(x, y) = x and
\* f(x, y) = x^2
SingularFunctions == {Q(0, 0, 0, 0, 1, 0), Q(2, 0, 0, 0, 0, 0)}

StartPoints ==
  {<<R(2), R(2)>>, <<R(2), Zero>>, <<Zero, Zero>>, <<<<3, 2>>, R(2)>>,
   <<<<1, 4>>, Zero>>}

Tolerances == {defaultOptimizerParams.tolerance, Zero, R(5)}

\* initialHessianApprox: absent, minus the identity, and a symmetric
\* positive-definite matrix that is not diagonal
InitialHessians == {Null, matScale(identity(2), R(-1)), M2(2, 1, 1, 1)}

Optimizers ==
  {"steepestDescent", "newton", "bfgs", "dfp", "sr1", "bb", "trustRegion"}

\* a11 > 0 and a22 > 0: the quadratics above that are convex
Convex(f) == RGt(f.a[1][1], Zero) /\ RGt(f.a[2][2], Zero)

\* The calls explored.  A line search that keeps halving its step goes
\* through steps down to 2^-50, which the 32-bit integers of TLC do not
\* hold, so the calls in which that happens are left out:
\*  - bfgs and dfp from the identity on a quadratic that is not convex (no
\*    step along -g satisfies the curvature condition, and the bracket of
\*    wolfeLineSearch is bisected until it collapses);
\*  - sr1 with tolerance 0 or on the concave bowl (once s = H y the update
\*    divides 0 by 0, H is NaN and so is every later trial value).
\* On the quadratic of quadratic.ts the quasi-Newton iterates have
\* denominators that grow past 32 bits in the third round, so bfgs, dfp,
\* sr1 and bb run at most one round on it.
\* The inverse of the Hessian of that quadratic is in sevenths, which a
\* double rounds: the Newton step lands within 1e-15 of the minimum instead
\* of on it.  With a positive tolerance the run ends there all the same;
\* with tolerance 0 it goes on and its branches depend on the rounding, so
\* newton is run on it with a positive tolerance only.
\* The trust region divides by norm(g), so it is started where every norm
\* it takes is rational: on the first axis of an axis-parallel quadratic, at
\* a stationary point, or on the ray through (3/2, 2) of the sphere.
\* The functions with a singular Hessian are given to newton and to the
\* trust region, from (2, 0), for up to MaxSingularIterations rounds (the
\* radius needs four rounds to reach its cap).
\* initialHessianApprox is read by bfgs, dfp and sr1 only.  From the
\* approximation that is not diagonal the denominators pass 32 bits in the
\* second update, so only bfgs and sr1 are started from it, for one round,
\* sr1 on the two spheres.
RationalNorms(f, x0) ==
  \/ /\ f.a[1][2] = Zero /\ f.a[2][1] = Zero /\ f.b[2] = Zero
     /\ x0[2] = Zero
  \/ gradient(f, x0) = <<Zero, Zero>>
  \/ f = Q(2, 0, 0, 2, 0, 0) /\ x0 = <<<<3, 2>>, R(2)>>

Calls ==
  {c \in [optimizer : Optimizers, func : Functions, x0 : StartPoints,
          maxIterations : 0..MaxIterations, tolerance : Tolerances,
          initialHessianApprox : InitialHessians] :
     /\ c.optimizer \in {"bfgs", "dfp"} /\ c.initialHessianApprox = Null
          => Convex(c.func)
     /\ c.optimizer = "sr1"
          => c.tolerance # Zero /\ c.func # Q(-2, 0, 0, -2, 0, 0)
     /\ c.optimizer \in {"bfgs", "dfp", "sr1", "bb"}
          /\ c.func = Q(4, 1, 1, 2, 0, 0)
          => c.maxIterations <= 1
     /\ c.optimizer = "newton" /\ c.func = Q(4, 1, 1, 2, 0, 0)
          => c.tolerance # Zero
     /\ c.optimizer = "trustRegion" => RationalNorms(c.func, c.x0)
     /\ c.optimizer \notin {"bfgs", "dfp", "sr1"}
          => c.initialHessianApprox = Null
     /\ c.initialHessianApprox = M2(2, 1, 1, 1)
          => /\ c.optimizer \in {"bfgs", "sr1"}
             /\ Convex(c.func) /\ c.maxIterations <= 1
             /\ c.optimizer = "sr1" => c.func.a = M2(2, 0, 0, 2)}
  \cup [optimizer : {"newton", "trustRegion"}, func : SingularFunctions,
        x0 : {V2(2, 0)}, maxIterations : 0..MaxSingularIterations,
        tolerance : {defaultOptimizerParams.tolerance},
        initialHessianApprox : {Null}]

\* the locals of an optimizer before its loop is entered
initialRun(c) ==
  [x |-> c.x0,
   g |-> IF c.optimizer \in {"newton", "trustRegion"} THEN Null
         ELSE gradient(c.func, c.x0),
   H |-> IF c.optimizer \in {"bfgs", "dfp", "sr1"}
         THEN (IF c.initialHessianApprox = Null THEN identity(Len(c.x0))
               ELSE c.initialHessianApprox)
         ELSE Null,
   alpha |-> IF c.optimizer = "bb" THEN One ELSE Null,
   delta |-> IF c.optimizer = "trustRegion" THEN One ELSE Null,
   iter |-> 0,
   iterations |-> <<>>,
   functionEvaluations |-> 0,
   gradientEvaluations |->
     IF c.optimizer \in {"newton", "trustRegion"} THEN 0 ELSE 1]

\* an optimizer is called: its locals are set up to the top of its loop
CallOptimizer ==
  /\ pc = "Idle"
  /\ \E c \in Calls :
       /\ call' = c
       /\ run' = initialRun(c)
  /\ pc' = "Running"
  /\ UNCHANGED <<ret, searches, lsCall, lsRet, fnCall, fnRet, first, uiVars>>

\* the optimizer is called a second time with the arguments of the call
\* that has returned: its locals are set up anew
CallOptimizerAgain ==
  /\ pc \in {"Converged", "ExhaustedBudget"}
  /\ first = Null
  /\ first' = ret
  /\ run' = initialRun(call)
  /\ pc' = "Running"
  /\ ret' = Null
  /\ searches' = <<>>
  /\ UNCHANGED <<call, lsCall, lsRet, fnCall, fnRet, uiVars>>

Round(o) ==
  /\ run' = o.run
  /\ pc' = o.pc
  /\ ret' = o.result
  /\ searches' = Append(searches, o.search)
  /\ UNCHANGED <<call, lsCall, lsRet, fnCall, fnRet, first, uiVars>>

GradientDescent ==
  /\ pc = "Running" /\ call.optimizer = "steepestDescent"
  /\ Round(gradientDescentRound(call, run))
Newton ==
  /\ pc = "Running" /\ call.optimizer = "newton"
  /\ Round(newtonRound(call, run))
Bfgs ==
  /\ pc = "Running" /\ call.optimizer = "bfgs"
  /\ Round(bfgsRound(call, run))
Dfp ==
  /\ pc = "Running" /\ call.optimizer = "dfp"
  /\ Round(dfpRound(call, run))
Sr1 ==
  /\ pc = "Running" /\ call.optimizer = "sr1"
  /\ Round(sr1Round(call, run))
BarzilaiBotwein ==
  /\ pc = "Running" /\ call.optimizer = "bb"
  /\ Round(barzilaiBotweinRound(call, run))
TrustRegion ==
  /\ pc = "Running" /\ call.optimizer = "trustRegion"
  /\ Round(trustRegionRound(call, run))

(***************************************************************************)
(* The line searches called directly                                       *)
(***************************************************************************)
Directions ==
  {<<R(-1), Zero>>, <<One, Zero>>, <<R(-10), R(-6)>>, <<R(-4), R(4)>>,
   <<Zero, Zero>>, <<Zero, One>>}

InitialAlphas == {One, Zero, Half, R(2)}

LineSearchCalls ==
  [search : {"backtracking", "wolfe"}, func : Functions, x : StartPoints,
   direction : Directions,
   params : [c1 : {defaultLineSearchParams.c1},
             c2 : {defaultLineSearchParams.c2},
             maxIterations : 0..MaxLineSearchIterations,
             initialAlpha : InitialAlphas]]

\* a line search is called directly
CallLineSearch ==
  /\ pc = "Idle"
  /\ lsCall' \in LineSearchCalls
  /\ pc' = "LineSearch"
  /\ UNCHANGED <<call, run, ret, searches, lsRet, fnCall, fnRet, first, uiVars>>

Backtracking ==
  /\ pc = "LineSearch" /\ lsRet = Null /\ lsCall.search = "backtracking"
  /\ lsRet' = backtracking(lsCall.func, lsCall.x, lsCall.direction,
                           lsCall.params)
  /\ UNCHANGED <<call, run, pc, ret, searches,
                 lsCall, fnCall, fnRet, first, uiVars>>

WolfeLineSearch ==
  /\ pc = "LineSearch" /\ lsRet = Null /\ lsCall.search = "wolfe"
  /\ lsRet' = wolfeLineSearch(lsCall.func, lsCall.x, lsCall.direction,
                              lsCall.params)
  /\ UNCHANGED <<call, run, pc, ret, searches,
                 lsCall, fnCall, fnRet, first, uiVars>>

(***************************************************************************)
(* The updates and the matrix inverse called directly                      *)
(***************************************************************************)
\* inverse-Hessian approximations: the identity, the inverse of the Hessian
\* of the sphere, a symmetric positive-definite matrix that is not diagonal,
\* minus the identity and a matrix that is not symmetric
Approximations ==
  {identity(2), matScale(identity(2), Half), M2(2, 1, 1, 1),
   matScale(identity(2), R(-1)), M2(1, 1, 0, 1)}

UpdateVectors == {V2(a, b) : a \in -1..2, b \in -1..1}

UpdateCalls ==
  [fn : {"bfgsUpdate", "dfpUpdate"}, H : Approximations, s : UpdateVectors,
   y : UpdateVectors]

\* bfgsUpdate or dfpUpdate is called directly
CallUpdate ==
  /\ pc = "Idle"
  /\ fnCall' \in UpdateCalls
  /\ pc' = "Function"
  /\ UNCHANGED <<call, run, ret, searches, lsCall, lsRet, fnRet, first, uiVars>>

BfgsUpdate ==
  /\ pc = "Function" /\ fnCall.fn = "bfgsUpdate"
  /\ fnRet' = bfgsUpdate(fnCall.H, fnCall.s, fnCall.y)
  /\ pc' = "Returned"
  /\ UNCHANGED <<call, run, ret, searches,
                 lsCall, lsRet, fnCall, first, uiVars>>

DfpUpdate ==
  /\ pc = "Function" /\ fnCall.fn = "dfpUpdate"
  /\ fnRet' = dfpUpdate(fnCall.H, fnCall.s, fnCall.y)
  /\ pc' = "Returned"
  /\ UNCHANGED <<call, run, ret, searches,
                 lsCall, lsRet, fnCall, first, uiVars>>

\* a is the square of a rational
IsSquare(a) ==
  /\ isFinite(a) /\ a[1] >= 0
  /\ ISqrtIn(a[1], 0, IF a[1] < 46340 THEN a[1] ELSE 46340) ^ 2 = a[1]
  /\ ISqrtIn(a[2], 0, IF a[2] < 46340 THEN a[2] ELSE 46340) ^ 2 = a[2]

\* the discriminant of the dogleg quadratic is the square of a rational
doglegIsRational(dCauchy, diff, delta) ==
  IsSquare(RSub(RMul(RMul(R(2), dot(dCauchy, diff)),
                     RMul(R(2), dot(dCauchy, diff))),
                RMul(RMul(R(4), dot(diff, diff)),
                     RSub(dot(dCauchy, dCauchy), RMul(delta, delta)))))

\* no square root is taken of the Newton point
newtonIsRational(dCauchy, dNewton, delta) ==
  \/ RGe(delta, Zero) /\ RLe(normSq(dNewton), RMul(delta, delta))
  \/ doglegIsRational(dCauchy, sub(dNewton, dCauchy), delta)

cauchyIsRational(g, B, Binv, delta) ==
  \/ Binv = Null
  \/ newtonIsRational(scale(g, RNeg(cauchyTau(dot(g, matVec(B, g)), norm(g),
                                              delta))),
                      scale(matVec(Binv, g), R(-1)), delta)

\* every square root solveTrustRegionSubproblem(g, B, delta) takes is
\* rational
subproblemIsRational(g, B, delta) ==
  /\ IsSquare(normSq(g))
  /\ normSq(g) = Zero \/ cauchyIsRational(g, B, inverse(B), delta)

Gradients ==
  {V2(0, 0), V2(3, 4), V2(0, -5), V2(0, 4), V2(2, 0), V2(-1, 0), V2(0, -3)}

\* Hessians: positive definite, indefinite, negative definite, singular
\* and not symmetric
Hessians ==
  {M2(2, 0, 0, 2), M2(4, 1, 1, 2), M2(1, -1, -1, 2), M2(1, -2, -2, 3),
   M2(-2, 0, 0, -2), M2(2, 0, 0, -2), M2(0, 0, 0, 0), M2(2, 0, 0, 0),
   M2(1, 2, 2, 4), M2(1, 1, 0, 1)}

\* radii: those of a run are positive; the function takes any number
Radii == {One, Half, <<5, 2>>, R(5), R(10), R(-1), <<-5, 2>>, R(-5)}

\* The calls with every square root rational; two calls in which the
\* Newton point lies outside the region and less than 1e-6 from the Cauchy
\* point, which lies on the boundary: g of length 2e-4, B = 1000 I and
\* Delta = 1e-7, so that dNewton has length 2e-7 and
\* a = ||dNewton - dCauchy||^2 = 1e-14; and calls with a small gradient and
\* radius whose dogleg quadratic has a discriminant of 4e-12 or 4e-16
SubproblemCalls ==
  {c \in [fn : {"solveTrustRegionSubproblem"}, g : Gradients, B : Hessians,
          delta : Radii] : subproblemIsRational(c.g, c.B, c.delta)}
  \cup {[fn |-> "solveTrustRegionSubproblem", g |-> g,
         B |-> M2(1000, 0, 0, 1000), delta |-> <<1, 10000000>>] :
          g \in {<<<<1, 5000>>, Zero>>, <<Zero, <<-1, 5000>>>>}}
  \cup {[fn |-> "solveTrustRegionSubproblem", g |-> <<Zero, RMul(s, t)>>,
         B |-> M2(1, -1, -1, 2), delta |-> t] :
          s \in {R(-1), One}, t \in {<<1, 1000>>, <<1, 10000>>}}

\* solveTrustRegionSubproblem is called directly
CallSubproblem ==
  /\ pc = "Idle"
  /\ fnCall' \in SubproblemCalls
  /\ pc' = "Function"
  /\ UNCHANGED <<call, run, ret, searches, lsCall, lsRet, fnRet, first, uiVars>>

SolveTrustRegionSubproblem ==
  /\ pc = "Function" /\ fnCall.fn = "solveTrustRegionSubproblem"
  /\ fnRet' = solveTrustRegionSubproblem(fnCall.g, fnCall.B, fnCall.delta)
  /\ pc' = "Returned"
  /\ UNCHANGED <<call, run, ret, searches,
                 lsCall, lsRet, fnCall, first, uiVars>>

V3(a, b, c) == <<R(a), R(b), R(c)>>

\* Matrices given to inverse: all 2 x 2 matrices with entries in -1..2,
\* the 2 x 2 matrix of matrix.test.ts and the rank-deficient one, a 2 x 2
\* matrix with an infinite entry, 1 x 1 matrices, a family of 3 x 3 matrices
\* around the one of matrix.test.ts (its largest first-column entry is in
\* the last row), 3 x 3 matrices with a zero on the diagonal or of rank 2,
\* and a matrix that is not square
Matrices ==
  {M2(a, b, c, d) : a \in -1..2, b \in -1..2, c \in -1..2, d \in -1..2}
  \cup {M2(4, 7, 2, 6), M2(1, 2, 2, 4),
        << <<Infinity, Zero>>, <<Zero, Zero>> >>,
        << <<R(2)>> >>, << <<Zero>> >>}
  \cup {<<V3(a, 2, 3), V3(0, b, 4), V3(5, 6, c)>> :
          a \in -1..2, b \in -1..2, c \in -1..2}
  \cup {<<V3(0, 1, 0), V3(1, 0, 0), V3(0, 0, 1)>>,
        <<V3(1, 2, 3), V3(2, 4, 6), V3(0, 1, 1)>>,
        <<V3(1, 2, 3), V3(4, 5, 6), V3(7, 8, 9)>>,
        <<V3(1, 2, 3), V3(4, 5, 6)>>}

InverseCalls == [fn : {"inverse"}, m : Matrices]

\* inverse is called directly
CallInverse ==
  /\ pc = "Idle"
  /\ fnCall' \in InverseCalls
  /\ pc' = "Function"
  /\ UNCHANGED <<call, run, ret, searches, lsCall, lsRet, fnRet, first, uiVars>>

Inverse ==
  /\ pc = "Function" /\ fnCall.fn = "inverse"
  /\ fnRet' = inverse(fnCall.m)
  /\ pc' = "Returned"
  /\ UNCHANGED <<call, run, ret, searches,
                 lsCall, lsRet, fnCall, first, uiVars>>

\* Step lengths, s.s and s.y given to the update of alpha of
\* barzilaiBotweinOptimize: those of quadratics with small coefficients,
\* whose quotient the clamp leaves alone, a step of length 7000 against a
\* gradient change of 1.4e14 (s.s = 4.9e7, s.y = 9.8e17, quotient 5e-11),
\* and a step of length 1 or 2 on a nearly flat slope (s.y = 1e-11 and,
\* below the threshold 1e-12, s.y = 1e-13).  s.y is 0 when s is 0
StepLengths == {One, Half, Pow10(-10), Pow10(10)}

AlphaCalls ==
  {c \in [fn : {"updateAlpha"}, alpha : StepLengths,
          sTs : {Zero, One, R(4), Scaled(<<49, 10>>, 7)},
          sTy : {R(-1), Zero, R(2), R(8), Scaled(<<49, 5>>, 17),
                 Pow10(-11), Pow10(-13)}] :
     c.sTs = Zero => c.sTy = Zero}

\* the update of alpha is run on its own
CallUpdateAlpha ==
  /\ pc = "Idle"
  /\ fnCall' \in AlphaCalls
  /\ pc' = "Function"
  /\ UNCHANGED <<call, run, ret, searches, lsCall, lsRet, fnRet, first, uiVars>>

UpdateAlpha ==
  /\ pc = "Function" /\ fnCall.fn = "updateAlpha"
  /\ fnRet' = updateAlpha(fnCall.alpha, fnCall.sTs, fnCall.sTy)
  /\ pc' = "Returned"
  /\ UNCHANGED <<call, run, ret, searches,
                 lsCall, lsRet, fnCall, first, uiVars>>

\* nothing has been called yet
(***************************************************************************)
(* useAnimation.  A call of a function the hook returns, or a change of    *)
(* the option maxIteration, is rendered at once, effect included; an       *)
(* animation frame runs animate, and the update it asks for is rendered    *)
(* in a later step.  The effect of that later render runs in a step of its *)
(* own, after the commit: a frame can fire in between.                     *)
(***************************************************************************)
\* bounds of the model
MaxAnimationIteration == 3

Speeds == {1, 2, 3}

\* milliseconds between two animation frames
FramePeriod == 250

\* const interval = 500 / speed
interval(s) == Rat(500, s)

\* rawIteration itself, a variant of the clamp below
currentIterationUnclamped(raw, max) == raw

\* const currentIteration = Math.min(rawIteration, maxIteration)
currentIteration(raw, max) == IF raw < max THEN raw ELSE max

\* isPlaying after the updater of animate when it never calls
\* setIsPlaying(false), a variant of the updater below
updaterPlayingNeverStops(playing, prev, max) == playing

\* isPlaying after the updater of animate: setIsPlaying(false) when
\* prev + 1 >= maxIteration
updaterPlaying(playing, prev, max) ==
  IF prev + 1 >= max THEN FALSE ELSE playing

\* what the updater of animate returns
updaterIteration(prev, max) == IF prev + 1 >= max THEN max ELSE prev + 1

\* rawIteration and isPlaying after the queued updaters ups[k..] have run
RECURSIVE applyUpdates(_, _, _, _)
applyUpdates(raw, playing, ups, k) ==
  IF k > Len(ups) THEN [raw |-> raw, playing |-> playing]
  ELSE applyUpdates(updaterIteration(raw, ups[k]),
                    updaterPlaying(playing, raw, ups[k]), ups, k + 1)

\* a render caused by the user that commits the state (raw, playing, s)
\* under the option max, followed at once by the effect when one of its
\* dependencies isPlaying, speed, maxIteration has changed: the cleanup
\* cancels the frame requested, then the effect either leaves no frame
\* requested (not playing) or sets lastTimeRef to 0 and requests a frame.
\* An effect still pending runs before the render.
Commit(raw, playing, s, max) ==
  /\ ~effectPending
  /\ rawIteration' = raw
  /\ isPlaying' = playing
  /\ speed' = s
  /\ maxIteration' = max
  /\ updates' = <<>>
  /\ IF <<playing, s, max>> = <<isPlaying, speed, maxIteration>>
     THEN UNCHANGED <<animationRef, lastTimeRef>>
     ELSE IF playing
     THEN animationRef' = TRUE /\ lastTimeRef' = <<>>
     ELSE animationRef' = FALSE /\ UNCHANGED lastTimeRef
  /\ UNCHANGED <<optimizerVars, visualizationVars, effectPending, userActive>>

\* the state with the queued updaters applied
flushed == applyUpdates(rawIteration, isPlaying, updates, 1)

\* isPlaying after the render of a call that asks for called(prev).  An
\* updater of animate calls setIsPlaying(false) when React runs it, and
\* the source does not say when that is.  The first updater queued may
\* have been run when animate queued it, nothing being queued then
\* (eager): its setIsPlaying(false) then comes before the call.  Or it
\* runs in the render, as every updater queued behind it does: its
\* setIsPlaying(false) then comes after the call, and isPlaying ends
\* false when an updater has reached maxIteration
playingAfterCall(called, eager) ==
  IF updates = <<>> THEN called[isPlaying]
  ELSE IF eager
  THEN applyUpdates(updaterIteration(rawIteration, updates[1]),
                    called[updaterPlaying(isPlaying, rawIteration,
                                          updates[1])],
                    updates, 2).playing
  ELSE applyUpdates(rawIteration, called[isPlaying], updates, 1).playing

Play ==
  /\ pc = "Hook" /\ userActive
  /\ \E eager \in BOOLEAN :
       Commit(flushed.raw,
              playingAfterCall([prev \in BOOLEAN |-> TRUE], eager),
              speed, maxIteration)

Pause ==
  /\ pc = "Hook" /\ userActive
  /\ Commit(flushed.raw, FALSE, speed, maxIteration)

TogglePlayPause ==
  /\ pc = "Hook" /\ userActive
  /\ \E eager \in BOOLEAN :
       Commit(flushed.raw,
              playingAfterCall([prev \in BOOLEAN |-> ~prev], eager),
              speed, maxIteration)

Reset ==
  /\ pc = "Hook" /\ userActive
  /\ Commit(0, FALSE, speed, maxIteration)

\* setRawIteration(Math.max(0, iteration))
goToIteration(iteration) == IF iteration > 0 THEN iteration ELSE 0

GoToIteration ==
  /\ pc = "Hook" /\ userActive
  /\ \E iteration \in -2..(MaxAnimationIteration + 2) :
       Commit(goToIteration(iteration), flushed.playing, speed, maxIteration)

SetSpeed ==
  /\ pc = "Hook" /\ userActive
  /\ \E s \in Speeds \ {speed} :
       Commit(flushed.raw, flushed.playing, s, maxIteration)

\* the component is rendered with another maxIteration
SetMaxIteration ==
  /\ pc = "Hook" /\ userActive
  /\ \E max \in (0..MaxAnimationIteration) \ {maxIteration} :
       Commit(flushed.raw, flushed.playing, speed, max)

\* the user stops calling the hook
UserLeaves ==
  /\ pc = "Hook" /\ userActive
  /\ userActive' = FALSE
  /\ UNCHANGED <<optimizerVars, visualizationVars, maxIteration, rawIteration,
                 isPlaying, speed, animationRef, lastTimeRef, updates,
                 effectPending>>

\* the updaters ups end with one that runs in the render, finds
\* prev + 1 >= maxIteration, calls setIsPlaying(false) and returns
\* maxIteration
stoppedInRender(raw, ups) ==
  /\ Len(ups) >= 2
  /\ applyUpdates(raw, TRUE, SubSeq(ups, 1, Len(ups) - 1), 1).raw + 1
       >= ups[Len(ups)]

\* the queue after setRawIteration(updater).  An updater queued behind one
\* that stops playback in the render under the same maxIteration does what
\* that one did: it finds rawIteration at maxIteration, calls
\* setIsPlaying(false) and returns maxIteration.  The queue with it
\* renders as the queue without it, after every call; it is not recorded
\* a second time
queued(raw, ups, max) ==
  IF stoppedInRender(raw, ups) /\ ups[Len(ups)] = max THEN ups
  ELSE Append(ups, max)

\* the frame requested fires, FramePeriod after the frame before it:
\* animate
Animate ==
  /\ pc = "Hook" /\ animationRef
  /\ LET deltaTime == IF lastTimeRef = <<>> THEN 0
                      ELSE lastTimeRef[1] + FramePeriod
     IN  IF RGe(R(deltaTime), interval(speed))
         THEN /\ updates' = queued(rawIteration, updates, maxIteration)
              /\ lastTimeRef' = <<0>>
         ELSE /\ updates' = updates
              /\ lastTimeRef' = <<deltaTime>>
  /\ animationRef' = TRUE
  /\ UNCHANGED <<optimizerVars, visualizationVars, maxIteration, rawIteration,
                 isPlaying, speed, effectPending, userActive>>

\* the updates asked for by animate are rendered and committed; the effect
\* of this render, due when isPlaying has changed, runs later
Render ==
  /\ pc = "Hook" /\ updates # <<>>
  /\ ~effectPending
  /\ rawIteration' = flushed.raw
  /\ isPlaying' = flushed.playing
  /\ updates' = <<>>
  /\ effectPending' = (flushed.playing # isPlaying)
  /\ UNCHANGED <<optimizerVars, visualizationVars, maxIteration, speed,
                 animationRef, lastTimeRef, userActive>>

\* the cleanup of the effect before and the effect of the render committed
Effect ==
  /\ pc = "Hook" /\ effectPending
  /\ effectPending' = FALSE
  /\ IF isPlaying
     THEN animationRef' = TRUE /\ lastTimeRef' = <<>>
     ELSE animationRef' = FALSE /\ UNCHANGED lastTimeRef
  /\ UNCHANGED <<optimizerVars, visualizationVars, maxIteration, rawIteration,
                 isPlaying, speed, updates, userActive>>

\* the hook after its first render
InitAnimation ==
  /\ maxIteration \in 0..MaxAnimationIteration
  /\ rawIteration = 0
  /\ isPlaying = FALSE
  /\ speed = 1
  /\ animationRef = FALSE
  /\ lastTimeRef = <<>>
  /\ updates = <<>>
  /\ effectPending = FALSE
  /\ userActive = TRUE

(***************************************************************************)
(* VisualizationProvider.  A call of one of the four callbacks asks for    *)
(* state updates; React renders them later, all at once, and only that     *)
(* render makes new callbacks, so the calls made before it all go through  *)
(* the callbacks of the last render and see its pinnedConfig.              *)
(***************************************************************************)
MaxPendingUpdates == 3

OverlayTypes == {"gradient", "direction"}

AlgorithmIds == {"bfgs", "sr1"}

CurrentPoints == {<<0, 0>>, <<1, 1>>}

Overlays ==
  [type : OverlayTypes, algorithmId : AlgorithmIds,
   currentPoint : CurrentPoints]

setActiveOverlay(next) ==
  [hook |-> "activeOverlay", updater |-> "value", arg |-> next]

setPinnedConfig(next) ==
  [hook |-> "pinnedConfig", updater |-> "value", arg |-> next]

\* setActiveOverlay((prev) => (prev?.algorithmId === algorithmId ? null : prev))
clearActiveOverlayOf(algorithmId) ==
  [hook |-> "activeOverlay", updater |-> "clearOf", arg |-> algorithmId]

isPinned(closed, overlay) ==
  /\ closed # Null
  /\ closed.type = overlay.type
  /\ closed.algorithmId = overlay.algorithmId

\* the updates each callback asks for; closed is the pinnedConfig the
\* callback closes over
showOverlay(closed, overlay) ==
  IF closed = Null THEN <<setActiveOverlay(overlay)>> ELSE <<>>

hideOverlay(closed, algorithmId) ==
  IF closed = Null \/ closed.algorithmId # algorithmId
  THEN <<clearActiveOverlayOf(algorithmId)>>
  ELSE <<>>

togglePin(closed, overlay) ==
  IF isPinned(closed, overlay)
  THEN <<setPinnedConfig(Null), setActiveOverlay(Null)>>
  ELSE <<setPinnedConfig([type |-> overlay.type,
                          algorithmId |-> overlay.algorithmId]),
         setActiveOverlay(overlay)>>

updatePinnedOverlay(closed, overlay) ==
  IF isPinned(closed, overlay) THEN <<setActiveOverlay(overlay)>> ELSE <<>>

\* one update applied to the state of its hook
applyUpdate(prev, u) ==
  IF u.updater = "value" THEN u.arg
  ELSE IF prev # Null /\ prev.algorithmId = u.arg THEN Null
  ELSE prev

RECURSIVE renderState(_, _, _, _)
renderState(prev, hook, ups, k) ==
  IF k > Len(ups) THEN prev
  ELSE renderState(IF ups[k].hook = hook THEN applyUpdate(prev, ups[k])
                   ELSE prev,
                   hook, ups, k + 1)

Ask(ups) ==
  /\ pc = "Provider"
  /\ Len(pendingUpdates) < MaxPendingUpdates
  /\ pendingUpdates' = pendingUpdates \o ups
  /\ UNCHANGED <<optimizerVars, animationVars, activeOverlay, pinnedConfig>>

ShowOverlay ==
  \E overlay \in Overlays : Ask(showOverlay(pinnedConfig, overlay))

HideOverlay ==
  \E algorithmId \in AlgorithmIds :
    Ask(hideOverlay(pinnedConfig, algorithmId))

TogglePin ==
  \E overlay \in Overlays : Ask(togglePin(pinnedConfig, overlay))

UpdatePinnedOverlay ==
  \E overlay \in Overlays : Ask(updatePinnedOverlay(pinnedConfig, overlay))

\* React renders the provider with the updates asked for
RenderProvider ==
  /\ pc = "Provider"
  /\ pendingUpdates # <<>>
  /\ activeOverlay' =
       renderState(activeOverlay, "activeOverlay", pendingUpdates, 1)
  /\ pinnedConfig' =
       renderState(pinnedConfig, "pinnedConfig", pendingUpdates, 1)
  /\ pendingUpdates' = <<>>
  /\ UNCHANGED <<optimizerVars, animationVars>>

\* the provider after its first render
InitVisualization ==
  /\ activeOverlay = Null
  /\ pinnedConfig = Null
  /\ pendingUpdates = <<>>

Init ==
  /\ call = Null
  /\ run = Null
  /\ pc = "Idle"
  /\ ret = Null
  /\ searches = <<>>
  /\ lsCall = Null
  /\ lsRet = Null
  /\ fnCall = Null
  /\ fnRet = Null
  /\ first = Null
  /\ InitAnimation /\ maxIteration = 0
  /\ InitVisualization

Next ==
  \/ CallOptimizer
  \/ CallOptimizerAgain
  \/ CallLineSearch
  \/ GradientDescent
  \/ Newton
  \/ Bfgs
  \/ Dfp
  \/ Sr1
  \/ BarzilaiBotwein
  \/ TrustRegion
  \/ Backtracking
  \/ WolfeLineSearch
  \/ CallUpdate
  \/ BfgsUpdate
  \/ DfpUpdate
  \/ CallSubproblem
  \/ SolveTrustRegionSubproblem
  \/ CallInverse
  \/ Inverse
  \/ CallUpdateAlpha
  \/ UpdateAlpha

Spec == Init /\ [][Next]_vars

\* the hook alone
InitHook ==
  /\ call = Null /\ run = Null /\ ret = Null /\ searches = <<>>
  /\ lsCall = Null /\ lsRet = Null /\ fnCall = Null /\ fnRet = Null
  /\ first = Null
  /\ pc = "Hook"
  /\ InitAnimation
  /\ InitVisualization

NextAnimation ==
  \/ Play
  \/ Pause
  \/ TogglePlayPause
  \/ Reset
  \/ GoToIteration
  \/ SetSpeed
  \/ SetMaxIteration
  \/ UserLeaves
  \/ Animate
  \/ Render
  \/ Effect

SpecAnimation == InitHook /\ [][NextAnimation]_vars

\* the provider alone
InitProvider ==
  /\ call = Null /\ run = Null /\ ret = Null /\ searches = <<>>
  /\ lsCall = Null /\ lsRet = Null /\ fnCall = Null /\ fnRet = Null
  /\ first = Null
  /\ pc = "Provider"
  /\ InitAnimation /\ maxIteration = 0
  /\ InitVisualization

NextVisualization ==
  \/ ShowOverlay
  \/ HideOverlay
  \/ TogglePin
  \/ UpdatePinnedOverlay
  \/ RenderProvider

SpecVisualization == InitProvider /\ [][NextVisualization]_vars

\* animation frames keep firing, React renders the updates it was asked
\* for and runs the effects of its renders
SpecAnimationFair ==
  SpecAnimation /\ WF_vars(Animate) /\ WF_vars(Render) /\ WF_vars(Effect)

(***************************************************************************)
(* The evaluations of the objective made in a call, counted from the       *)
(* calls of f and grad in the source                                       *)
(***************************************************************************)
\* calls of f in a line search: f(x), then f(xNew) once per trial
searchValueCalls(ls) == 1 + Len(ls.trials)

\* calls of grad in a line search: grad(x), then grad(xNew) at the trials
\* of wolfeLineSearch that reach it
searchGradientCalls(ls) == 1 + Len(ls.gradTrials)

\* the calls of f (kind "value") or grad (kind "gradient") made by the
\* line searches of rounds k..Len(ss)
RECURSIVE searchCallsFrom(_, _, _)
searchCallsFrom(ss, k, kind) ==
  IF k > Len(ss) THEN 0
  ELSE (IF ss[k] = Null THEN 0
        ELSE IF kind = "value" THEN searchValueCalls(ss[k])
        ELSE searchGradientCalls(ss[k]))
       + searchCallsFrom(ss, k + 1, kind)

\* calls of func.value in an optimizer run: fx at the top of every round,
\* the calls made by the line searches, fxNew in every round of the trust
\* region that goes past the budget test, and finalFx after the loop when
\* the run did not converge
valueCalls(c, result, ss) ==
  Len(result.iterations)
  + searchCallsFrom(ss, 1, "value")
  + (IF c.optimizer = "trustRegion" THEN Len(result.iterations) - 1 ELSE 0)
  + (IF result.converged THEN 0 ELSE 1)

\* calls of func.gradient in an optimizer run: newton and the trust region
\* call it at the top of every round, the others once before the loop and
\* once (gNew) in every round that goes past the budget test; and the
\* calls made by the line searches
gradientCalls(c, result, ss) ==
  Len(result.iterations)
  + searchCallsFrom(ss, 1, "gradient")

(***************************************************************************)
(* Properties of the optimizer runs                                        *)
(***************************************************************************)

\* C1: the returned converged flag is true exactly when the gradient norm of
\* the last emitted state is below the tolerance, and a run returns
\* converged = false only after emitting the state of index maxIterations.
C1_ConvergedIffLastBelowTolerance ==
  ret # Null =>
    LET n == Len(ret.iterations)
        lastState == ret.iterations[n]
    IN  /\ n >= 1
        /\ ret.converged
             <=> SqrtLt(lastState.gradientNormSq, call.tolerance)
        /\ ~ret.converged => lastState.iteration = call.maxIterations

\* C1 witness: a run whose state of index maxIterations > 0 is below the
\* tolerance has returned converged = true.
C1_ConvergedAtBudget ==
  /\ ret # Null
  /\ ret.converged
  /\ call.maxIterations > 0
  /\ ret.iterations[Len(ret.iterations)].iteration = call.maxIterations

\* C2: every optimizer call terminates: each round of the loop either
\* returns or moves on to the next iteration, of which there are at most
\* maxIterations + 1; the result holds at most maxIterations + 1 states,
\* state number k carries iteration = k, a run that did not converge holds
\* exactly maxIterations + 1 states, and a line search evaluates f at no
\* more trial points than its iteration budget.
C2_TerminatesWithinBudget ==
  /\ [][pc = "Running" =>
          /\ run.iter <= call.maxIterations
          /\ \/ pc' \in {"Converged", "ExhaustedBudget"} /\ ret' # Null
             \/ pc' = "Running" /\ run'.iter = run.iter + 1]_vars
  /\ [](call # Null =>
          /\ Len(run.iterations) <= call.maxIterations + 1
          /\ \A k \in 1..Len(run.iterations) :
               run.iterations[k].iteration = k - 1
          /\ ret # Null =>
               /\ ret.iterations = run.iterations
               /\ ~ret.converged
                    => Len(ret.iterations) = call.maxIterations + 1
          /\ \A k \in 1..Len(searches) :
               searches[k] # Null =>
                 Len(searches[k].trials)
                   <= defaultLineSearchParams.maxIterations)
  /\ [](lsRet # Null => Len(lsRet.trials) <= lsCall.params.maxIterations)

\* C2 witness: a run has used its whole budget of maxIterations + 1 states,
\* with a line search of several trials in it.
C2_BudgetUsed ==
  /\ ret # Null
  /\ ~ret.converged
  /\ call.maxIterations = MaxIterations
  /\ Len(ret.iterations) = MaxIterations + 1
  /\ \E k \in 1..Len(searches) :
       searches[k] # Null /\ Len(searches[k].trials) >= 2

\* C3: in the result of every run, iterations[0].direction is null and
\* iterations[0].alpha is null.
C3_InitialStateHasNoStep ==
  ret # Null =>
    /\ ret.iterations[1].direction = Null
    /\ ret.iterations[1].alpha = Null

\* C4 as stated: for every optimizer and every pair of consecutive states
\* k, k+1 of a returned trajectory, x_{k+1} = x_k + alpha_k * direction_k.
C4_EveryStepIsAlphaTimesDirection ==
  ret # Null =>
    \A k \in 1..(Len(ret.iterations) - 1) :
      LET s == ret.iterations[k]
      IN  ret.iterations[k + 1].x = add(s.x, scale(s.direction, s.alpha))

\* C5: in steepest descent, Newton, BFGS, DFP and SR1, a line search that
\* returns success = false does not end or repeat the round: the returned
\* alpha is recorded in the current state, the iterate moves to
\* x + alpha * direction, the iteration counter advances, and the
\* trajectory returned goes on past that state.
C5_FailedSearchIsUsed ==
  call # Null =>
    \A k \in 1..Len(searches) :
      (searches[k] # Null /\ ~searches[k].success) =>
        /\ call.optimizer
             \in {"steepestDescent", "newton", "bfgs", "dfp", "sr1"}
        /\ k <= Len(run.iterations)
        /\ run.iter >= k
        /\ LET s == run.iterations[k]
               xAfter == IF k < Len(run.iterations)
                         THEN run.iterations[k + 1].x ELSE run.x
           IN  /\ s.iteration = k - 1
               /\ s.direction # Null
               /\ s.alpha = searches[k].alpha
               /\ xAfter = add(s.x, scale(s.direction, searches[k].alpha))
        /\ pc \in {"Running", "Converged", "ExhaustedBudget"}
        /\ ret # Null =>
             /\ Len(ret.iterations) >= k + 1
             /\ ret.iterations[Len(ret.iterations)].iteration
                  = Len(ret.iterations) - 1

\* C5 witness: a run has returned after a round in which its line search
\* failed along a nonzero direction.
C5_ReturnedAfterFailedSearch ==
  /\ ret # Null
  /\ \E k \in 1..Len(searches) :
       /\ searches[k] # Null
       /\ ~searches[k].success
       /\ ret.iterations[k].direction # <<Zero, Zero>>
       /\ Len(ret.iterations) > k

(***************************************************************************)
(* Properties of the line searches                                         *)
(***************************************************************************)

\* C6: backtracking and wolfeLineSearch called with
\* gradient(x) . direction >= 0 return alpha = 0 and success = false
\* without evaluating f or the gradient at any trial point.
C6_NonDescentReturnsAtOnce ==
  (/\ lsRet # Null
   /\ RGe(dot(gradient(lsCall.func, lsCall.x), lsCall.direction), Zero)) =>
    /\ lsRet.alpha = Zero
    /\ ~lsRet.success
    /\ lsRet.trials = <<>>
    /\ lsRet.gradTrials = <<>>

\* C6 witness: wolfeLineSearch has returned from a call along a nonzero
\* direction orthogonal to the gradient, with a budget of several trials.
C6_OrthogonalDirectionRefused ==
  /\ lsRet # Null
  /\ lsCall.search = "wolfe"
  /\ lsCall.direction # <<Zero, Zero>>
  /\ gradient(lsCall.func, lsCall.x) # <<Zero, Zero>>
  /\ dot(gradient(lsCall.func, lsCall.x), lsCall.direction) = Zero
  /\ lsCall.params.maxIterations >= 2
  /\ RGt(lsCall.params.initialAlpha, Zero)

\* C7: along a descent direction backtracking evaluates f at the steps
\* initialAlpha * 0.5^i, i = 0, 1, 2, ... in that order, and when it returns
\* success = true the step returned is the last one tried, satisfies
\* f(x + alpha d) <= f(x) + c1 alpha (g . d), and every step tried before
\* it violates that condition.
C7_FirstArmijoStepOfHalvingSequence ==
  (/\ lsRet # Null
   /\ lsCall.search = "backtracking"
   /\ RLt(dot(gradient(lsCall.func, lsCall.x), lsCall.direction), Zero)) =>
    LET f == lsCall.func
        x == lsCall.x
        d == lsCall.direction
        dd == dot(gradient(f, x), d)
        n == Len(lsRet.trials)
        holds(a) ==
          RLe(value(f, add(x, scale(d, a))),
              RAdd(value(f, x), RMul(RMul(lsCall.params.c1, a), dd)))
    IN  /\ \A i \in 1..n :
             lsRet.trials[i] = IF i = 1 THEN lsCall.params.initialAlpha
                               ELSE RMul(lsRet.trials[i - 1], Half)
        /\ lsRet.success =>
             /\ n >= 1
             /\ lsRet.alpha = lsRet.trials[n]
             /\ holds(lsRet.alpha)
             /\ \A i \in 1..(n - 1) : ~holds(lsRet.trials[i])

\* C7 witness: backtracking has returned success after rejecting two steps.
C7_ThirdStepAccepted ==
  /\ lsRet # Null
  /\ lsCall.search = "backtracking"
  /\ lsRet.success
  /\ Len(lsRet.trials) = 3
  /\ RGt(lsRet.alpha, Zero)

\* C8: when backtracking uses up its iteration budget without the Armijo
\* condition ever holding, it returns success = false together with the
\* last step at which it evaluated f.
C8_ExhaustedReturnsLastAttempt ==
  (/\ lsRet # Null
   /\ lsCall.search = "backtracking"
   /\ RLt(dot(gradient(lsCall.func, lsCall.x), lsCall.direction), Zero)
   /\ Len(lsRet.trials) = lsCall.params.maxIterations
   /\ Len(lsRet.trials) >= 1
   /\ ~lsRet.success) =>
    lsRet.alpha = lsRet.trials[Len(lsRet.trials)]

\* C9: whenever wolfeLineSearch returns success = true, the step returned
\* satisfies f(x + alpha d) <= f(x) + c1 alpha (g0 . d) and
\* |g(x + alpha d) . d| <= c2 |g0 . d|.
C9_SuccessSatisfiesStrongWolfe ==
  (/\ lsRet # Null
   /\ lsCall.search = "wolfe"
   /\ lsRet.success) =>
    LET f == lsCall.func
        x == lsCall.x
        d == lsCall.direction
        dg0 == dot(gradient(f, x), d)
        xNew == add(x, scale(d, lsRet.alpha))
    IN  /\ RLe(value(f, xNew),
               RAdd(value(f, x),
                    RMul(RMul(lsCall.params.c1, lsRet.alpha), dg0)))
        /\ RLe(RAbs(dot(gradient(f, xNew), d)),
               RMul(lsCall.params.c2, RAbs(dg0)))

\* C10: in BFGS, DFP and SR1 the direction recorded in every state that has
\* one is a descent direction: direction . gradient < 0.
C10_RecordedDirectionIsDescent ==
  (call # Null /\ call.optimizer \in {"bfgs", "dfp", "sr1"}) =>
    \A k \in 1..Len(run.iterations) :
      LET s == run.iterations[k]
      IN  s.direction # Null => RLt(dot(s.direction, s.gradient), Zero)

(***************************************************************************)
(* C11: bfgsUpdate(H, s, y) returns H itself, entry for entry, whenever    *)
(* y.s <= 0 (rho = 1/(y.s) is then non-finite or <= 0; s = 0 is such a     *)
(* case), and returns the BFGS formula                                     *)
(*   H - rho (s (H^T y)^T + (H y) s^T) + (rho^2 y^T H y + rho) s s^T       *)
(* when y.s > 0.                                                           *)
(***************************************************************************)
C11_BfgsUpdateSkipsUnlessCurvature ==
  pc = "Returned" /\ fnCall.fn = "bfgsUpdate" =>
    LET H == fnCall.H
        s == fnCall.s
        y == fnCall.y
        ys == dot(y, s)
        rho == RDiv(One, ys)
        Hy == matVec(H, y)
        yH == [j \in 1..Len(y) |-> dot(y, column(H, j))]
        quad == RAdd(RMul(RMul(rho, rho), dot(y, Hy)), rho)
        formula ==
          [i \in 1..Len(s) |-> [j \in 1..Len(s) |->
             RAdd(RSub(H[i][j],
                       RMul(rho, RAdd(RMul(s[i], yH[j]), RMul(Hy[i], s[j])))),
                  RMul(quad, RMul(s[i], s[j])))]]
    IN  /\ RLe(ys, Zero) => fnRet = H
        /\ RGt(ys, Zero) => fnRet = formula

\* C11 witness: bfgsUpdate was called with s = 0 and a y that is not zero
\* and returned the H it was given
C11_ZeroStepKeepsH ==
  /\ pc = "Returned" /\ fnCall.fn = "bfgsUpdate"
  /\ fnCall.s = V2(0, 0) /\ fnCall.y = V2(2, 1)
  /\ fnCall.H = M2(2, 1, 1, 1)
  /\ fnRet = fnCall.H

(***************************************************************************)
(* C12: for every symmetric H and every s, y with y.s > 0, the matrix      *)
(* H' = bfgsUpdate(H, s, y) satisfies the secant condition H' y = s.       *)
(***************************************************************************)
C12_SecantCondition ==
  /\ pc = "Returned" /\ fnCall.fn = "bfgsUpdate"
  /\ fnCall.H[1][2] = fnCall.H[2][1]
  /\ RGt(dot(fnCall.y, fnCall.s), Zero)
  => matVec(fnRet, fnCall.y) = fnCall.s

\* C12 witness: an update of a symmetric H that is not diagonal, with
\* y.s = 3, was applied and changed H
C12_UpdateApplied ==
  /\ pc = "Returned" /\ fnCall.fn = "bfgsUpdate"
  /\ fnCall.H = M2(2, 1, 1, 1)
  /\ fnCall.s = V2(2, -1) /\ fnCall.y = V2(1, -1)
  /\ fnRet # fnCall.H
  /\ matVec(fnRet, fnCall.y) = fnCall.s

(***************************************************************************)
(* C13: in a BFGS run started from a symmetric positive-definite           *)
(* inverse-Hessian approximation (the identity by default) the             *)
(* hessianApprox recorded in every iteration state is symmetric positive   *)
(* definite; the step of the induction is that bfgsUpdate returns a        *)
(* symmetric positive-definite matrix whenever it is given one.            *)
(***************************************************************************)
\* m is a symmetric 2 x 2 matrix with positive leading principal minors;
\* m11 m22 > m12^2 is decided as |m12| / m11 < m22 / |m12|, whose two sides
\* stay small because the entries of m share their denominator
isSymmetricPositiveDefinite(m) ==
  /\ m[1][2] = m[2][1]
  /\ RGt(m[1][1], Zero)
  /\ RGt(m[2][2], Zero)
  /\ \/ m[1][2] = Zero
     \/ RLt(RDiv(RAbs(m[1][2]), m[1][1]), RDiv(m[2][2], RAbs(m[1][2])))

C13_ApproximationStaysPositiveDefinite ==
  /\ /\ call # Null /\ call.optimizer = "bfgs"
     /\ \/ call.initialHessianApprox = Null
        \/ isSymmetricPositiveDefinite(call.initialHessianApprox)
     => \A k \in 1..Len(run.iterations) :
          isSymmetricPositiveDefinite(run.iterations[k].hessianApprox)
  /\ /\ pc = "Returned" /\ fnCall.fn = "bfgsUpdate"
     /\ isSymmetricPositiveDefinite(fnCall.H)
     => isSymmetricPositiveDefinite(fnRet)

\* C13 witness: a BFGS run started from [[2, 1], [1, 1]] has returned after
\* one update, and the approximation recorded after the update differs
\* from the one recorded before it
C13_UpdatedApproximationRecorded ==
  /\ call # Null /\ call.optimizer = "bfgs"
  /\ call.initialHessianApprox = M2(2, 1, 1, 1)
  /\ pc = "ExhaustedBudget"
  /\ Len(run.iterations) = 2
  /\ run.iterations[1].hessianApprox = M2(2, 1, 1, 1)
  /\ run.iterations[2].hessianApprox # M2(2, 1, 1, 1)
  /\ isSymmetricPositiveDefinite(run.iterations[2].hessianApprox)

(***************************************************************************)
(* C14: in every Barzilai-Borwein run the scalar alpha_k is 1 at first and *)
(* lies in [1e-10, 1e10] in every state; after a step it is                *)
(* (s.s)/(s.y), clamped to that interval (1e-10 when the quotient is       *)
(* below it, 1e10 when it is above), when s.y > 1e-12, and is the alpha    *)
(* of the step before otherwise.  alpha_k is read from the recorded        *)
(* hessianApprox alpha_k I, and the alpha in use from the locals.  The     *)
(* same is stated of the update of alpha run on its own, whose operands    *)
(* reach past both ends of the interval.                                   *)
(***************************************************************************)
C14_BarzilaiBorweinStepLength ==
  LET inInterval(a) ==
        a # NaN /\ ~NLt(a, Pow10(-10)) /\ ~NGt(a, Pow10(10))
      clamped(quotient) ==
        IF NLt(quotient, Pow10(-10)) THEN Pow10(-10)
        ELSE IF NGt(quotient, Pow10(10)) THEN Pow10(10)
        ELSE quotient
      expected(alpha, sTs, sTy) ==
        IF NGt(sTy, Pow10(-12)) THEN clamped(NDiv(sTs, sTy)) ELSE alpha
  IN  /\ call # Null /\ call.optimizer = "bb" =>
           LET its == run.iterations
               n == Len(its)
               alphaAt(k) ==
                 IF k <= n THEN its[k].hessianApprox[1][1] ELSE run.alpha
               xAt(k) == IF k <= n THEN its[k].x ELSE run.x
               gAt(k) == IF k <= n THEN its[k].gradient ELSE run.g
               last == IF pc = "Running" THEN run.iter + 1 ELSE n
           IN  /\ alphaAt(1) = One
               /\ \A k \in 1..last : inInterval(alphaAt(k))
               /\ \A k \in 1..(last - 1) :
                    LET st == sub(xAt(k + 1), xAt(k))
                        y == sub(gAt(k + 1), gAt(k))
                    IN  alphaAt(k + 1)
                          = expected(alphaAt(k), dot(st, st), dot(st, y))
      /\ pc = "Returned" /\ fnCall.fn = "updateAlpha" =>
           /\ fnRet = expected(fnCall.alpha, fnCall.sTs, fnCall.sTy)
           /\ inInterval(fnRet)

\* C14 witness: after a step with s.s = 4.9e7 and s.y = 9.8e17 the quotient
\* is 5e-11, and the alpha of the next round is 1e-10
C14_StepLengthClamped ==
  /\ pc = "Returned" /\ fnCall.fn = "updateAlpha"
  /\ fnCall.alpha = One
  /\ fnCall.sTs = R(49000000) /\ fnCall.sTy = <<"E", <<49, 5>>, 17>>
  /\ NDiv(fnCall.sTs, fnCall.sTy) = <<"E", R(5), -11>>
  /\ fnRet = <<"E", One, -10>>

(***************************************************************************)
(* C15: in every trust-region run the radius Delta starts at 1 and         *)
(* satisfies 0 < Delta <= 10 in every state; from one iteration to the     *)
(* next it becomes Delta / 4 when rho < 1/4, min(2 Delta, 10) when         *)
(* rho > 3/4 and the step was on the boundary (its length is Delta), and   *)
(* is unchanged otherwise.  Delta_k is read from the alpha field of state  *)
(* k, the radius in use from the locals, and rho is recomputed from the    *)
(* recorded x, fx, gradient, trueHessian and direction.                    *)
(***************************************************************************)
C15_RadiusGrowsOnTheBoundary ==
  call # Null /\ call.optimizer = "trustRegion" =>
    LET its == run.iterations
        n == Len(its)
        last == IF pc = "Running" THEN run.iter + 1 ELSE n
        deltaAt(k) == IF k <= n THEN its[k].alpha ELSE run.delta
    IN  /\ deltaAt(1) = One
        /\ \A k \in 1..last :
             RGt(deltaAt(k), Zero) /\ RLe(deltaAt(k), R(10))
        /\ \A k \in 1..(last - 1) :
             LET st == its[k]
                 d == st.direction
                 delta == deltaAt(k)
                 actual == RSub(st.fx, value(call.func, add(st.x, d)))
                 predicted ==
                   RNeg(RAdd(dot(st.gradient, d),
                             RMul(Half, dot(d, matVec(st.trueHessian, d)))))
                 rho == IF Gt1em12(predicted) THEN RDiv(actual, predicted)
                        ELSE Zero
                 onTheBoundary == normSq(d) = RMul(delta, delta)
             IN  deltaAt(k + 1) =
                   IF RLt(rho, <<1, 4>>) THEN RMul(<<1, 4>>, delta)
                   ELSE IF RGt(rho, <<3, 4>>) /\ onTheBoundary
                   THEN RMin(RMul(R(2), delta), R(10))
                   ELSE delta

(***************************************************************************)
(* C16: in the trust-region optimizer the point advances                   *)
(* (x_{k+1} = x_k + d) only if rho > 0.1.  Whenever rho <= 0.1 (rho is 0   *)
(* when the predicted reduction is <= 1e-12) the next state has the x of   *)
(* the current one, and with it the same fx, gradient and Hessians; the    *)
(* radius is a quarter of what it was, and the iteration index has         *)
(* advanced by one.                                                        *)
(***************************************************************************)
C16_RejectedStepKeepsPoint ==
  call # Null /\ call.optimizer = "trustRegion" =>
    LET its == run.iterations
        n == Len(its)
        last == IF pc = "Running" THEN run.iter + 1 ELSE n
        deltaAt(k) == IF k <= n THEN its[k].alpha ELSE run.delta
        xAt(k) == IF k <= n THEN its[k].x ELSE run.x
    IN  \A k \in 1..(last - 1) :
          LET st == its[k]
              d == st.direction
              actual == RSub(st.fx, value(call.func, add(st.x, d)))
              predicted ==
                RNeg(RAdd(dot(st.gradient, d),
                          RMul(Half, dot(d, matVec(st.trueHessian, d)))))
              rho == IF Gt1em12(predicted) THEN RDiv(actual, predicted)
                     ELSE Zero
          IN  /\ st.iteration = k - 1
              /\ run.iter >= k
              /\ IF RGt(rho, <<1, 10>>)
                 THEN xAt(k + 1) = add(st.x, d)
                 ELSE /\ xAt(k + 1) = st.x
                      /\ deltaAt(k + 1) = RMul(<<1, 4>>, deltaAt(k))
                      /\ k + 1 <= n =>
                           /\ its[k + 1].iteration = st.iteration + 1
                           /\ its[k + 1].fx = st.fx
                           /\ its[k + 1].gradient = st.gradient
                           /\ its[k + 1].hessianApprox = st.hessianApprox
                           /\ its[k + 1].trueHessian = st.trueHessian

\* C16 witness: on the concave bowl the Newton step from (1/4, 0) points
\* at the maximiser, the model predicts an increase, rho is 0, and the
\* next state is recorded at the same point with radius 1/4
C16_StepRejected ==
  /\ call # Null /\ call.optimizer = "trustRegion"
  /\ call.func = Q(-2, 0, 0, -2, 0, 0) /\ call.x0 = <<<<1, 4>>, Zero>>
  /\ Len(run.iterations) >= 2
  /\ run.iterations[1].direction = <<<<-1, 4>>, Zero>>
  /\ run.iterations[2].x = run.iterations[1].x
  /\ run.iterations[2].alpha = <<1, 4>>
  /\ run.iterations[2].iteration = 1

(***************************************************************************)
(* C17: for every gradient g, Hessian B and radius Delta > 0 the step d    *)
(* returned by solveTrustRegionSubproblem satisfies ||d|| <= Delta, on     *)
(* every branch (decided on the squares).  The fallback for a degenerate   *)
(* quadratic returns the Cauchy point as it is, so on that branch the      *)
(* bound is the bound on the Cauchy point, which is stated as well for     *)
(* every call that computes one, whichever branch the call then takes.     *)
(***************************************************************************)
C17_StepWithinRadius ==
  /\ pc = "Returned" /\ fnCall.fn = "solveTrustRegionSubproblem"
  /\ RGt(fnCall.delta, Zero)
  => LET g == fnCall.g
         deltaSq == NMul(fnCall.delta, fnCall.delta)
         gTBg == dot(g, matVec(fnCall.B, g))
         tau == IF RLe(gTBg, Zero) THEN RDiv(fnCall.delta, norm(g))
                ELSE RMin(RDiv(normSq(g), gTBg), RDiv(fnCall.delta, norm(g)))
         dCauchy == scale(g, RNeg(tau))
     IN  /\ NLe(ndot(fnRet.d, fnRet.d), deltaSq)
         /\ normSq(g) # Zero => NLe(ndot(dCauchy, dCauchy), deltaSq)

\* C17 witness: the fallback for a degenerate quadratic with a positive
\* radius.  With g = (1/5000, 0), B = 1000 I and Delta = 1e-7, tau is
\* Delta / ||g|| = 1/2000, the Cauchy point (-1e-7, 0) lies on the
\* boundary, the Newton point (-2e-7, 0) outside, a = 1e-14 < 1e-12, and
\* the Cauchy point is returned: ||d||^2 = Delta^2 = 1e-14
C17_DegenerateFallback ==
  /\ pc = "Returned" /\ fnCall.fn = "solveTrustRegionSubproblem"
  /\ fnCall.g = <<<<1, 5000>>, Zero>> /\ fnCall.B = M2(1000, 0, 0, 1000)
  /\ fnCall.delta = <<1, 10000000>>
  /\ LET dNewton == scale(matVec(inverse(fnCall.B), fnCall.g), R(-1))
         diff == sub(dNewton, fnRet.d)
     IN  /\ dNewton = <<<<-1, 5000000>>, Zero>>
         /\ ~NLe(ndot(dNewton, dNewton), NMul(fnCall.delta, fnCall.delta))
         /\ ndot(diff, diff) = <<"E", One, -14>>
         /\ NLt1em12(ndot(diff, diff))
  /\ fnRet = [d |-> <<<<-1, 10000000>>, Zero>>, onBoundary |-> TRUE]
  /\ ndot(fnRet.d, fnRet.d) = <<"E", One, -14>>

\* C17, the dogleg branch: with g = (0, -5), B = [[1, -1], [-1, 2]] and
\* Delta = 5 the Cauchy point (0, 5/2) is inside, the Newton point (10, 5)
\* is outside, and the step returned is the point (3, 4) of the segment
\* between them
C17_DoglegSegment ==
  /\ pc = "Returned" /\ fnCall.fn = "solveTrustRegionSubproblem"
  /\ fnCall.g = V2(0, -5) /\ fnCall.B = M2(1, -1, -1, 2)
  /\ fnCall.delta = R(5)
  /\ fnRet = [d |-> V2(3, 4), onBoundary |-> TRUE]

(***************************************************************************)
(* C18: Newton's method does not stop on a singular Hessian: whenever      *)
(* inverse(hessian(x_k)) reports no inverse, the hessianApprox of state k  *)
(* is the identity, the direction of the step from x_k is exactly          *)
(* -gradient(x_k), and the run goes on to the next iteration unless state  *)
(* k converged or used up the budget.                                      *)
(***************************************************************************)
C18_SingularHessianFallsBackToIdentity ==
  call # Null /\ call.optimizer = "newton" =>
    LET its == run.iterations
        n == Len(its)
    IN  \A k \in 1..n :
          inverse(its[k].trueHessian) = Null =>
            /\ its[k].hessianApprox = identity(Len(its[k].x))
            /\ k < n \/ pc = "Running" =>
                 its[k].direction = scale(its[k].gradient, R(-1))
            /\ k = n /\ pc # "Running" =>
                 \/ pc = "Converged" /\ ret.converged
                 \/ pc = "ExhaustedBudget" /\ k = call.maxIterations + 1

\* C18 witness: on f(x, y) = x^2, whose Hessian [[2, 0], [0, 0]] has no
\* inverse, the run from (2, 0) stepped along -gradient = (-4, 0) and
\* recorded the next state at (0, 0)
C18_SteppedAlongMinusGradient ==
  /\ call # Null /\ call.optimizer = "newton"
  /\ call.func = Q(2, 0, 0, 0, 0, 0)
  /\ Len(run.iterations) >= 2
  /\ run.iterations[1].hessianApprox = identity(2)
  /\ run.iterations[1].direction = V2(-4, 0)
  /\ run.iterations[1].alpha = Half
  /\ run.iterations[2].x = V2(0, 0)

(***************************************************************************)
(* C19, as claimed: for a square matrix of any size, 2 x 2 included,       *)
(* inverse(M) returns null exactly when the largest-magnitude pivot        *)
(* candidate of some column of the elimination with partial pivoting is    *)
(* below 1e-12, that is exactly when the elimination of [M | I] stops      *)
(* with null.                                                              *)
(***************************************************************************)
C19_NullExactlyWhenPivotBelow ==
  /\ pc = "Returned" /\ fnCall.fn = "inverse"
  /\ Len(fnCall.m) = Len(fnCall.m[1])
  => LET m == fnCall.m
         n == Len(m)
         aug == [i \in 1..n |->
                   m[i] \o [j \in 1..n |-> IF i = j THEN One ELSE Zero]]
     IN  fnRet = Null <=> eliminate(aug, 1, n) = Null

(***************************************************************************)
(* C19, amended: inverse(M) returns null for an M that is not square; for  *)
(* a 2 x 2 M it returns null exactly when |a d - b c| < 1e-12, with no     *)
(* pivoting (a determinant that is NaN is not below the threshold); for    *)
(* the other square sizes it returns null exactly when a pivot candidate   *)
(* is below 1e-12, which for the entries of the model is exactly when M    *)
(* is singular: m11 = 0 for 1 x 1, determinant 0 for 3 x 3.                *)
(***************************************************************************)
C19_NullRule ==
  pc = "Returned" /\ fnCall.fn = "inverse" =>
    LET m == fnCall.m
        n == Len(m)
        minor(i, j, k, l) == RSub(RMul(m[i][k], m[j][l]),
                                  RMul(m[i][l], m[j][k]))
        det3 == RAdd(RSub(RMul(m[1][1], minor(2, 3, 2, 3)),
                          RMul(m[1][2], minor(2, 3, 1, 3))),
                     RMul(m[1][3], minor(2, 3, 1, 2)))
    IN  /\ n # Len(m[1]) => fnRet = Null
        /\ n = 2 /\ Len(m[1]) = 2 =>
             (fnRet = Null <=> AbsLt1em12(minor(1, 2, 1, 2)))
        /\ n = 1 /\ Len(m[1]) = 1 =>
             (fnRet = Null <=> AbsLt1em12(m[1][1]))
        /\ n = 3 /\ Len(m[1]) = 3 => (fnRet = Null <=> det3 = Zero)

\* C19 witness: inverse was called with the 3 x 3 matrix of rank 2 whose
\* largest first-column entry is in the second row, and returned null
C19_RankDeficientIsNull ==
  /\ pc = "Returned" /\ fnCall.fn = "inverse"
  /\ fnCall.m = <<V3(1, 2, 3), V3(2, 4, 6), V3(0, 1, 1)>>
  /\ fnRet = Null

(***************************************************************************)
(* C20: for every square matrix M of finite entries for which inverse(M)   *)
(* is not null, by the closed form for 2 x 2 or by the elimination with    *)
(* row swaps, inverse(M) M = M inverse(M) = I.                             *)
(***************************************************************************)
C20_InverseIsTwoSided ==
  /\ pc = "Returned" /\ fnCall.fn = "inverse"
  /\ fnRet # Null
  /\ \A i \in 1..Len(fnCall.m) : \A j \in 1..Len(fnCall.m[i]) :
       isFinite(fnCall.m[i][j])
  => /\ mul(fnRet, fnCall.m) = identity(Len(fnCall.m))
     /\ mul(fnCall.m, fnRet) = identity(Len(fnCall.m))

\* C20 witness: the 3 x 3 matrix of matrix.test.ts, whose first pivot is
\* found in the last row, was inverted
C20_ThreeByThreeInverted ==
  /\ pc = "Returned" /\ fnCall.fn = "inverse"
  /\ fnCall.m = <<V3(1, 2, 3), V3(0, 1, 4), V3(5, 6, 0)>>
  /\ fnRet = <<V3(-24, 18, 5), V3(20, -15, -4), V3(-5, 4, 1)>>

(***************************************************************************)
(* C22: the functionEvaluations of a result is the number of calls of      *)
(* func.value made in the run, those of the line searches and the final    *)
(* one included, and gradientEvaluations is the number of calls of         *)
(* func.gradient.                                                          *)
(***************************************************************************)
C22_CountersEqualEvaluations ==
  ret # Null =>
    /\ ret.functionEvaluations = valueCalls(call, ret, searches)
    /\ ret.gradientEvaluations = gradientCalls(call, ret, searches)

(***************************************************************************)
(* C23: dfpUpdate(H, s, y) applies the DFP formula only when s.y > 0, and  *)
(* returns H unchanged for every s, y with s.y <= 0.                       *)
(***************************************************************************)
C23_DfpUpdateSkipsUnlessCurvature ==
  (/\ pc = "Returned" /\ fnCall.fn = "dfpUpdate"
   /\ RLe(dot(fnCall.s, fnCall.y), Zero))
  => fnRet = fnCall.H

(***************************************************************************)
(* C24: sr1Optimize chooses its step length by wolfeLineSearch in every    *)
(* round whose direction is the quasi-Newton direction -H g, and by        *)
(* backtracking only in the rounds whose direction has fallen back to -g.  *)
(***************************************************************************)
C24_Sr1UsesWolfeUnlessFallback ==
  call # Null /\ call.optimizer = "sr1" =>
    \A k \in 1..Len(searches) :
      searches[k] # Null =>
        LET it == run.iterations[k]
            qn == scale(matVec(it.hessianApprox, it.gradient), R(-1))
        IN  IF RGe(dot(qn, it.gradient), Zero)
            THEN searches[k]
                   = backtracking(call.func, it.x, scale(it.gradient, R(-1)),
                                  defaultLineSearchParams)
            ELSE searches[k]
                   = wolfeLineSearch(call.func, it.x, qn,
                                     defaultLineSearchParams)

\* C24 as the code has it: sr1Optimize, unlike bfgsOptimize and
\* dfpOptimize, which choose their step length by wolfeLineSearch, chooses
\* it by backtracking in every round, along the quasi-Newton direction
\* -H g as well as along the fallback -g taken when dot(-H g, g) >= 0, and
\* never calls wolfeLineSearch.
C24_Sr1AlwaysBacktracks ==
  call # Null =>
    \A k \in 1..Len(searches) :
      searches[k] # Null =>
        LET it == run.iterations[k]
            qn == scale(matVec(it.hessianApprox, it.gradient), R(-1))
        IN  /\ call.optimizer = "sr1" =>
                 /\ it.direction
                      = (IF RGe(dot(qn, it.gradient), Zero)
                         THEN scale(it.gradient, R(-1)) ELSE qn)
                 /\ searches[k]
                      = backtracking(call.func, it.x, it.direction,
                                     defaultLineSearchParams)
            /\ call.optimizer \in {"bfgs", "dfp"} =>
                 searches[k]
                   = wolfeLineSearch(call.func, it.x, it.direction,
                                     defaultLineSearchParams)

\* C24 witness: a round of sr1Optimize went along -H g with an H that is
\* not a multiple of the identity, and backtracking accepted a step
C24_QuasiNewtonRoundBacktracked ==
  /\ call # Null /\ call.optimizer = "sr1"
  /\ call.initialHessianApprox = M2(2, 1, 1, 1)
  /\ Len(searches) >= 1 /\ searches[1] # Null
  /\ run.iterations[1].direction
       = scale(matVec(call.initialHessianApprox, run.iterations[1].gradient),
               R(-1))
  /\ run.iterations[1].direction # scale(run.iterations[1].gradient, R(-1))
  /\ searches[1].success
  /\ searches[1] # wolfeLineSearch(call.func, run.iterations[1].x,
                                   run.iterations[1].direction,
                                   defaultLineSearchParams)

(***************************************************************************)
(* C25: the evaluations returned by backtracking and by wolfeLineSearch    *)
(* is the number of calls of f the search made; the calls of grad, which   *)
(* wolfeLineSearch makes only at trial points that passed the Armijo test, *)
(* are not counted in it.                                                  *)
(***************************************************************************)
C25_EvaluationsCountValueCalls ==
  lsRet # Null => lsRet.evaluations = searchValueCalls(lsRet)

(***************************************************************************)
(* C26: throughout a call of wolfeLineSearch with initialAlpha > 0 the     *)
(* bracket satisfies 0 <= alphaLo <= alphaHi <= 2 initialAlpha, alphaLo    *)
(* never decreases and alphaHi never increases, every trial step and the   *)
(* alpha returned lie in [alphaLo, alphaHi], and every trial after the     *)
(* first is the midpoint (alphaLo + alphaHi) / 2: the step is never        *)
(* doubled.                                                                *)
(***************************************************************************)
\* the brackets of the result ls, the one it ended with last
bracketsOf(ls) == Append(ls.brackets, <<ls.alphaLo, ls.alphaHi>>)

bracketInvariant(ls, initialAlpha) ==
  LET bs == bracketsOf(ls)
      n == Len(ls.trials)
  IN  /\ Len(bs) = n + 1
      /\ bs[1] = <<Zero, RMul(R(2), initialAlpha)>>
      /\ \A k \in 1..(n + 1) :
           /\ RLe(Zero, bs[k][1])
           /\ RLe(bs[k][1], bs[k][2])
           /\ RLe(bs[k][2], RMul(R(2), initialAlpha))
      /\ \A k \in 1..n :
           /\ RLe(bs[k][1], bs[k + 1][1])
           /\ RLe(bs[k + 1][2], bs[k][2])
           /\ RLe(bs[k][1], ls.trials[k])
           /\ RLe(ls.trials[k], bs[k][2])
           /\ ls.trials[k] = RDiv(RAdd(bs[k][1], bs[k][2]), R(2))
      /\ RLe(ls.alphaLo, ls.alpha)
      /\ RLe(ls.alpha, ls.alphaHi)

C26_BracketInvariant ==
  /\ (/\ lsRet # Null /\ lsCall.search = "wolfe"
      /\ RGt(lsCall.params.initialAlpha, Zero)
      /\ lsRet.alphaLo # Null)
     => bracketInvariant(lsRet, lsCall.params.initialAlpha)
  /\ (call # Null /\ call.optimizer \in {"bfgs", "dfp"})
     => \A k \in 1..Len(searches) :
          searches[k] # Null /\ searches[k].alphaLo # Null
            => bracketInvariant(searches[k],
                                defaultLineSearchParams.initialAlpha)

\* C26 witness: wolfeLineSearch raised alphaLo to the first trial step and
\* made its second trial at the midpoint 3/2 initialAlpha of the bracket,
\* not at the double of the first
C26_SecondTrialIsMidpoint ==
  /\ lsRet # Null /\ lsCall.search = "wolfe"
  /\ RGt(lsCall.params.initialAlpha, Zero)
  /\ Len(lsRet.trials) >= 2
  /\ lsRet.brackets[2][1] = lsCall.params.initialAlpha
  /\ lsRet.brackets[2][2] = RMul(R(2), lsCall.params.initialAlpha)
  /\ lsRet.trials[2] = RMul(<<3, 2>>, lsCall.params.initialAlpha)

(***************************************************************************)
(* C27: in the result of every optimizer, converged or not, solution is    *)
(* the x of the last iteration state and finalValue is the value of the    *)
(* objective at solution, which is the fx of the last iteration state;     *)
(* also when the last step of the trust region was rejected.               *)
(***************************************************************************)
C27_ResultIsLastState ==
  ret # Null =>
    LET last == ret.iterations[Len(ret.iterations)]
    IN  /\ ret.solution = last.x
        /\ ret.finalValue = value(call.func, ret.solution)
        /\ ret.finalValue = last.fx

\* C27 witness: the trust region has returned without converging after a
\* run whose last step, which was not zero, was rejected
C27_ReturnedAfterRejectedStep ==
  /\ ret # Null /\ call.optimizer = "trustRegion"
  /\ ~ret.converged
  /\ Len(ret.iterations) >= 2
  /\ LET n == Len(ret.iterations)
     IN  /\ ret.iterations[n - 1].direction # <<Zero, Zero>>
         /\ ret.iterations[n].x = ret.iterations[n - 1].x
         /\ ret.solution = ret.iterations[n].x

(***************************************************************************)
(* Properties of useAnimation                                              *)
(***************************************************************************)
\* C28: after any sequence of play, pause, togglePlayPause, reset,
\* goToIteration(n) for any integer n, animation frames and changes of
\* maxIteration (>= 0), the currentIteration the hook returns satisfies
\* 0 <= currentIteration <= maxIteration.
C28_CurrentIterationInRange ==
  pc = "Hook" =>
    /\ 0 <= currentIteration(rawIteration, maxIteration)
    /\ currentIteration(rawIteration, maxIteration) <= maxIteration

\* C28 witness: while playing, rawIteration is above a maxIteration that
\* was lowered after goToIteration, and currentIteration is maxIteration
C28_ClampedToMaxIteration ==
  /\ pc = "Hook"
  /\ isPlaying
  /\ rawIteration > maxIteration
  /\ maxIteration > 0
  /\ currentIteration(rawIteration, maxIteration) = maxIteration

\* C29: once isPlaying is true and animation frames keep firing with no
\* further call by the user, currentIteration eventually reaches
\* maxIteration and isPlaying then becomes false and stays false, also when
\* play was pressed at maxIteration; and while isPlaying is false no tick
\* changes currentIteration: neither a frame that fires before the effect
\* has cancelled it nor the render of the update such a frame asked for.
C29_PlaybackStopsAtMaxIteration ==
  /\ [](pc = "Hook" /\ ~userActive /\ isPlaying
         => <>[](/\ ~isPlaying
                 /\ currentIteration(rawIteration, maxIteration)
                      = maxIteration))
  /\ [](pc = "Hook" /\ ~isPlaying /\ ~effectPending => ~animationRef)
  /\ [][pc = "Hook" /\ ~isPlaying /\ (Animate \/ Render)
          => currentIteration(rawIteration', maxIteration')
               = currentIteration(rawIteration, maxIteration)]_vars

\* C29 witness: the user has left, playback has stopped by itself at
\* maxIteration, and a frame that fired before the effect cancelled it has
\* asked for one more update, which is queued while isPlaying is false
C29_TickQueuedAfterPlaybackStopped ==
  /\ pc = "Hook" /\ ~userActive
  /\ ~isPlaying /\ ~effectPending /\ ~animationRef
  /\ rawIteration = maxIteration /\ maxIteration > 0
  /\ updates = <<maxIteration>>

(***************************************************************************)
(* Properties of VisualizationProvider                                     *)
(***************************************************************************)

\* C30: in every state reached by any interleaving of showOverlay,
\* hideOverlay, togglePin and updatePinnedOverlay calls, those made before
\* the last pin change was rendered included, whenever pinnedConfig is
\* non-null the activeOverlay is non-null and has the type and the
\* algorithmId of pinnedConfig.
C30_PinnedOverlayStaysActive ==
  pinnedConfig # Null
    => /\ activeOverlay # Null
       /\ activeOverlay.type = pinnedConfig.type
       /\ activeOverlay.algorithmId = pinnedConfig.algorithmId

====
